---- MODULE Spec2Model ----
(***************************************************************************)
(* A model of the Otter transcript downloader:                             *)
(*   otter_downloader.py  DownloadState (the sequential ledger) and the    *)
(*                        sequential run (run_download, download_meeting), *)
(*                        the whole process (main, reset, login) and a run *)
(*                        during which one write of the state file fails,  *)
(*                        a run that is interrupted, and, each called on   *)
(*                        its own: download_meeting, scroll_to_load_all,   *)
(*                        extract_meeting_info, sanitize_filename and      *)
(*                        strategy_text_extraction, with strings as        *)
(*                        sequences of characters,                         *)
(*   otter_parallel.py    ParallelState (the ledger behind one Lock), the  *)
(*                        worker pool (run_parallel_download), one worker  *)
(*                        task and extract_transcript_text on their own.   *)
(*                                                                         *)
(* The ledger is the dict self.state; the state file is what json.dump     *)
(* last wrote.  Time stamps (last_run, discovered_at, timestamp) are clock *)
(* readings that no decision of the program reads; they are left out.      *)
(* Python's None is the string "None".  A dict that the code iterates      *)
(* (meetings) is a sequence of entries in insertion order.                 *)
(***************************************************************************)
EXTENDS Integers, Sequences, FiniteSets, TLC

\* ------------------------------------------------------------------ bounds
\* Attempt records kept per id when the ledger is driven call by call.
MaxAttempts == 1

\* Anchors on the listing page of a sequential run.
MaxListing == 3

\* The ids, titles and artifacts the calls draw from.
IdName == <<"m1", "m2", "m3", "m4", "m5">>
Ids == {"m1", "m2"}
Titles == {"t1", "t2"}
Paths == {"f1"}
Sizes == {"s1"}
Methods == {"text_extraction", "screenshot"}
AttemptMethods == {"text_extraction"}

None == "None"

VARIABLES
    state,      \* DownloadState.state / ParallelState.state: the in-memory ledger
    file,       \* STATE_FILE (.otter_state.json): <<>> when absent, <<its content>> when
                \* it holds a whole JSON document, <<content, "truncated">> when a
                \* write stopped part way and left no parsable document
    last,       \* the ledger call made by the last step
    disk,       \* the disk under STATE_FILE: which of the coming writes fails, and how
    \* --- the environment and the arguments of a sequential run
    listing,    \* the ids of the anchors on the listing page, in page order
    page,       \* how each item's page behaves (PageKinds)
    num,        \* run_download's num argument (0: not given)
    reset,      \* run_download's reset argument
    login,      \* what the sign-in form does with the credentials (LoginKinds)
    prior,      \* STATE_FILE as the process found it
    \* --- the other files and the process
    session_file,   \* SESSION_FILE: <<>> when absent, else <<the storage state>>
    progress_file,  \* PROGRESS_FILE: <<>> when absent
    shots,          \* the debug screenshots taken
    exit_status,    \* the status main() exits with (None while the process runs)
    interrupt,      \* the interrupt signal: "none" yet, "raised" as KeyboardInterrupt
                    \* on its way up, or "swallowed" by an except clause
    \* --- run_download / download_meeting
    pc,         \* where the run is
    link,       \* extract_meeting_info: index of the next anchor
    meetings,   \* extract_meeting_info's result, then cut by num
    pending,    \* run_download's pending list
    item,       \* index into pending of the meeting being downloaded
    retry,      \* download_meeting's retry
    strategy,   \* index into strategies of the strategy to call next
    waits,      \* the backoff sleeps of the current download_meeting call
    success_count,
    final_stats,
    result,     \* what run_download returned (None while it runs)
    \* --- run_parallel_download and its pool
    lock,       \* ParallelState.lock: the set holding the thread that owns it
    threads,    \* per thread (0 is the main thread): pc, id of its task, error, ret
    queue,      \* the executor's work queue, in submission order
    futures,    \* id -> "running", "True", "False" or "raised"
    download_count,
    progress,   \* the last get_progress() of the main thread
    \* --- one function called on its own
    input,      \* the arguments and the environment of the call
    output,     \* what the call returned (<<>> until it returns; scroll_to_load_all's
                \* count and the sanitizers' strings as the elements of a tuple)
    previous_count,     \* scroll_to_load_all's locals
    no_change_count,
    scroll_count

ledgerVars == <<state, file, last, disk>>
envVars == <<listing, page, num, reset, login, prior>>
sysVars == <<session_file, progress_file, shots, exit_status, interrupt>>
runVars == <<pc, link, meetings, pending, item, retry, strategy, waits,
             success_count, final_stats, result>>
poolVars == <<lock, threads, queue, futures, download_count, progress>>
fnVars == <<input, output, previous_count, no_change_count, scroll_count>>
vars == <<ledgerVars, envVars, sysVars, runVars, poolVars, fnVars>>

\* ------------------------------------------------------- Python list helpers
InList(x, s) == \E k \in 1..Len(s) : s[k] = x

RECURSIVE RemoveFirst(_, _)
\* list.remove(x): drops the first occurrence of x
RemoveFirst(s, x) ==
    IF s = <<>> THEN <<>>
    ELSE IF Head(s) = x THEN Tail(s)
    ELSE <<Head(s)>> \o RemoveFirst(Tail(s), x)

Count(x, s) == Cardinality({k \in 1..Len(s) : s[k] = x})

\* ------------------------------------------------------- dict of meetings
HasMeeting(ms, id) == \E k \in 1..Len(ms) : ms[k].id = id

IndexOf(ms, id) == CHOOSE k \in 1..Len(ms) : ms[k].id = id

Meeting(ms, id) == ms[IndexOf(ms, id)]

MeetingIds(ms) == {ms[k].id : k \in 1..Len(ms)}

EntriesFor(ms, id) == Cardinality({k \in 1..Len(ms) : ms[k].id = id})

\* full_url = f"{OTTER_BASE_URL}/u/{meeting_id}"
UrlOf(id) == <<"https://otter.ai/u/", id>>

\* ------------------------------------------------------- DownloadState
EmptyState ==
    [ meetings |-> <<>>,
      download_attempts |-> <<>>,
      successful_downloads |-> <<>>,
      failed_downloads |-> <<>>,
      total_meetings_found |-> 0,
      run_history |-> <<>> ]

load_state_partial(f) == IF f = <<>> THEN EmptyState ELSE f[1]

\* _load_state: the file's content; a fresh state when the file is absent or
\* json.load raises on it (the bare except)
load_state(f) == IF Len(f) = 1 THEN f[1] ELSE EmptyState

NewMeeting(id, title, url) ==
    [ id |-> id, title |-> title, url |-> url, status |-> "pending",
      download_path |-> None, file_size |-> None, method_used |-> None ]

register_meeting_overwrite(st, id, title, url) ==
    IF HasMeeting(st.meetings, id)
    THEN [st EXCEPT !.meetings[IndexOf(st.meetings, id)] = NewMeeting(id, title, url)]
    ELSE [st EXCEPT !.meetings = Append(@, NewMeeting(id, title, url))]

register_meeting(st, id, title, url) ==
    IF ~HasMeeting(st.meetings, id)
    THEN [st EXCEPT !.meetings = Append(@, NewMeeting(id, title, url))]
    ELSE st

AttemptsOf(st, id) ==
    IF id \in DOMAIN st.download_attempts THEN st.download_attempts[id] ELSE <<>>

record_attempt_latest(st, id, method, success, error) ==
    LET rec == [method |-> method, success |-> success, error |-> error]
    IN  [st EXCEPT !.download_attempts =
            IF id \in DOMAIN @
            THEN [@ EXCEPT ![id] = <<rec>>]
            ELSE @ @@ (id :> <<rec>>)]

record_attempt(st, id, method, success, error) ==
    LET rec == [method |-> method, success |-> success, error |-> error]
    IN  [st EXCEPT !.download_attempts =
            IF id \in DOMAIN @
            THEN [@ EXCEPT ![id] = Append(@, rec)]
            ELSE @ @@ (id :> <<rec>>)]

mark_success(st, id, file_path, method, file_size) ==
    LET ms == IF HasMeeting(st.meetings, id)
              THEN [st.meetings EXCEPT ![IndexOf(st.meetings, id)] =
                        [@ EXCEPT !.status = "success",
                                  !.download_path = file_path,
                                  !.file_size = file_size,
                                  !.method_used = method]]
              ELSE st.meetings
        ok == IF ~InList(id, st.successful_downloads)
              THEN Append(st.successful_downloads, id)
              ELSE st.successful_downloads
        ko == IF InList(id, st.failed_downloads)
              THEN RemoveFirst(st.failed_downloads, id)
              ELSE st.failed_downloads
    IN  [st EXCEPT !.meetings = ms,
                   !.successful_downloads = ok,
                   !.failed_downloads = ko]

mark_failure(st, id) ==
    LET ms == IF HasMeeting(st.meetings, id)
              THEN [st.meetings EXCEPT ![IndexOf(st.meetings, id)].status = "failed"]
              ELSE st.meetings
        ko == IF ~InList(id, st.failed_downloads)
              THEN Append(st.failed_downloads, id)
              ELSE st.failed_downloads
    IN  [st EXCEPT !.meetings = ms, !.failed_downloads = ko]

get_pending_meetings_pending_only(st) ==
    SelectSeq(st.meetings, LAMBDA m : m.status = "pending")

\* get_pending_meetings: the entries, in dict order, whose status is pending or failed
get_pending_meetings(st) ==
    SelectSeq(st.meetings, LAMBDA m : m.status = "pending" \/ m.status = "failed")

is_downloaded_or_failed(st, id) ==
    InList(id, st.successful_downloads) \/ InList(id, st.failed_downloads)

is_downloaded_never(st, id) == FALSE

is_downloaded(st, id) == InList(id, st.successful_downloads)

get_stats(st) ==
    [ total_meetings |-> Len(st.meetings),
      successful |-> Len(st.successful_downloads),
      failed |-> Len(st.failed_downloads),
      pending |-> Len(get_pending_meetings(st)) ]

\* ------------------------------------------------------- save and the disk
\* disk.left = k > 0: the k-th write of the state file from now fails, in the way
\* disk.kind says; disk.left = 0: every write goes through.
\*   open   open(state_file, 'w') raises; the file is as it was
\*   write  json.dump raises after open() has truncated the file
\*   crash  the process dies inside json.dump, after open() has truncated the file
\*   kill   the process dies right after the write
\* After the failure disk.left is 0 and disk.kind still tells what happened.
FaultKinds == {"open", "write", "crash", "kill"}

NoFault == [left |-> 0, kind |-> "none"]

\* A run of ledger calls: the ledger in memory, the file, the disk, and whether an
\* exception is on its way up ("raised") or the process is gone ("died").
Ctx(st, f, d) == [state |-> st, file |-> f, disk |-> d, exc |-> "none"]

\* DownloadState.save
save(c) ==
    IF c.exc # "none" THEN c
    ELSE IF c.disk.left = 1
    THEN [c EXCEPT !.disk.left = 0,
                   !.file = CASE c.disk.kind = "open" -> c.file
                              [] c.disk.kind = "kill" -> <<c.state>>
                              [] OTHER -> <<c.state, "truncated">>,
                   !.exc = IF c.disk.kind \in {"crash", "kill"} THEN "died" ELSE "raised"]
    ELSE [c EXCEPT !.disk.left = IF @ > 1 THEN @ - 1 ELSE 0,
                   !.file = <<c.state>>]

\* a mutator of DownloadState: the change in memory (st is the ledger after it),
\* then self.save(); nothing happens once an exception is on its way up
Then(c, st) ==
    IF c.exc # "none" THEN c ELSE save([c EXCEPT !.state = st])

\* an except clause that handles the exception on its way up
Caught(c) == [c EXCEPT !.exc = IF @ = "raised" THEN "none" ELSE @]

\* where control goes after ledger calls that no try block of the caller covers
Landing(c, normal) ==
    CASE c.exc = "died" -> "crashed"
      [] c.exc = "raised" -> "fatal"
      [] OTHER -> normal

\* ------------------------------------------------------- the ledger, call by call
Call(op, id) == [op |-> op, id |-> id]

\* the variables of a single function call while none is modelled
NoFn ==
    /\ input = <<>> /\ output = <<>>
    /\ previous_count = 0 /\ no_change_count = 0 /\ scroll_count = 0

\* the run's variables while no run is modelled
NoRun ==
    /\ listing = <<>> /\ page = <<>> /\ num = 0
    /\ reset = FALSE /\ login = None /\ prior = file
    /\ session_file = <<>> /\ progress_file = <<>> /\ shots = {} /\ exit_status = None /\ interrupt = "none"
    /\ pc = "idle" /\ link = 0 /\ meetings = <<>> /\ pending = <<>>
    /\ item = 0 /\ retry = 0 /\ strategy = 0 /\ waits = <<>>
    /\ success_count = 0 /\ final_stats = None /\ result = None
    /\ NoFn

\* the pool's variables while no parallel run is modelled
NoPool ==
    /\ lock = {} /\ threads = <<>> /\ queue = <<>> /\ futures = <<>>
    /\ download_count = 0 /\ progress = None

LedgerInit ==
    /\ file = <<>>
    /\ state = load_state(file)
    /\ last = Call("load", None)
    /\ disk = NoFault
    /\ NoRun /\ NoPool

\* every mutator ends in self.save(): json.dump(self.state) into the state file
\* (the calls are made on a disk without faults)
Register ==
    \E id \in Ids, t \in Titles :
        /\ state' = register_meeting(state, id, t, UrlOf(id))
        /\ file' = <<state'>>
        /\ last' = Call("register_meeting", id)
        /\ UNCHANGED <<disk, envVars, fnVars, sysVars, runVars, poolVars>>

RecordAttempt ==
    \E id \in Ids, method \in AttemptMethods, success \in BOOLEAN :
        /\ Len(AttemptsOf(state, id)) < MaxAttempts
        /\ state' = record_attempt(state, id, method, success,
                                   IF success THEN None ELSE "error")
        /\ file' = <<state'>>
        /\ last' = Call("record_attempt", id)
        /\ UNCHANGED <<disk, envVars, fnVars, sysVars, runVars, poolVars>>

MarkSuccess ==
    \E id \in Ids, p \in Paths, method \in Methods, size \in Sizes :
        /\ state' = mark_success(state, id, p, method, size)
        /\ file' = <<state'>>
        /\ last' = Call("mark_success", id)
        /\ UNCHANGED <<disk, envVars, fnVars, sysVars, runVars, poolVars>>

MarkFailure ==
    \E id \in Ids :
        /\ state' = mark_failure(state, id)
        /\ file' = <<state'>>
        /\ last' = Call("mark_failure", id)
        /\ UNCHANGED <<disk, envVars, fnVars, sysVars, runVars, poolVars>>

LedgerNext == Register \/ RecordAttempt \/ MarkSuccess \/ MarkFailure

SpecLedger == LedgerInit /\ [][LedgerNext]_vars

\* ------------------------------------------------------- the pages (environment)
\* How an item's page behaves when download_meeting works on it:
\*   text     the content container holds the transcript
\*   api      no usable text; the page state holds the transcript
\*   shot     neither; the screenshot is taken
\*   none     neither, and the screenshot file does not appear
\*   broken   every strategy raises
\*   timeout  page.goto times out in every attempt
\*   flaky    page.goto raises in the first attempt, then the page is a text page
\*   once     a text page in the first attempt; the other strategies decline and
\*            page.goto times out in every later attempt
PageKinds == {"text", "api", "shot", "none", "broken", "timeout", "flaky"}

Navigation(kind, r) ==
    CASE kind = "timeout" -> "timeout"
      [] kind = "once" /\ r > 0 -> "timeout"
      [] kind = "flaky" /\ r = 0 -> "error"
      [] OTHER -> "ok"

\* what strategy `method` does on a page of this kind: "ok", "declined" or "raised"
Outcome(kind, method) ==
    CASE kind = "broken" -> "raised"
      [] kind = "none" -> "declined"
      [] kind \in {"text", "flaky", "once"} ->
            IF method = "text_extraction" THEN "ok" ELSE "declined"
      [] kind = "api" ->
            IF method = "direct_api" THEN "ok" ELSE "declined"
      [] kind = "shot" ->
            IF method = "screenshot" THEN "ok" ELSE "declined"
      [] OTHER -> "declined"

Declined(method) ==
    CASE method = "text_extraction" -> "Insufficient text content found"
      [] method = "direct_api" -> "Could not fetch from API"
      [] OTHER -> "Screenshot save failed"

PathOf(method) == IF method = "screenshot" THEN "f.png" ELSE "f.txt"

\* ------------------------------------------------------- run_download
max_retries_two == 3 - 1

strategies_api_first == <<"direct_api", "text_extraction", "screenshot">>

\* download_meeting's max_retries
max_retries == 3

\* download_meeting's strategies list
strategies == <<"text_extraction", "direct_api", "screenshot">>

TitleOf(id) == "t1"

Item(id) == [id |-> id, title |-> TitleOf(id), url |-> UrlOf(id)]

Take(s, n) == SubSeq(s, 1, IF n < Len(s) THEN n ELSE Len(s))

\* one strategy call on a disk without faults: the attempt record and, on
\* success, mark_success
strategy_call(st, id, method, outcome) ==
    IF outcome = "ok"
    THEN mark_success(record_attempt(st, id, method, TRUE, None),
                      id, PathOf(method), method, "s1")
    ELSE record_attempt(st, id, method, FALSE,
                        IF outcome = "declined" THEN Declined(method) ELSE "exception")

\* the try block of a strategy: the page work, then the ledger calls
strategy_try(c, id, method, outcome) ==
    CASE outcome = "ok" ->
            LET a == Then(c, record_attempt(c.state, id, method, TRUE, None))
            IN  Then(a, mark_success(a.state, id, PathOf(method), method, "s1"))
      [] outcome = "declined" ->
            Then(c, record_attempt(c.state, id, method, FALSE, Declined(method)))
      [] OTHER -> [c EXCEPT !.exc = "raised"]

\* str(e) of the exception a strategy's except clause records
StrE(outcome) == IF outcome = "raised" THEN "exception" ELSE "OSError"

\* A whole strategy.  An exception of the try block is handled by
\* `except Exception as e: record_attempt(.., False, str(e))`; in strategy_direct_api
\* the ledger calls of the success path sit in an inner try whose `except: pass`
\* drops the exception and falls through to the "Could not fetch from API" record.
strategy_run(c, id, method, outcome) ==
    LET t == strategy_try(c, id, method, outcome)
        handler(x) == Then(Caught(x),
                           record_attempt(x.state, id, method, FALSE, StrE(outcome)))
    IN  IF t.exc # "raised" THEN t
        ELSE IF method = "direct_api" /\ outcome = "ok"
        THEN LET u == Then(Caught(t),
                           record_attempt(t.state, id, method, FALSE, Declined(method)))
             IN  IF u.exc = "raised" THEN handler(u) ELSE u
        ELSE handler(t)

\* The state file a sequential run leaves behind for ids IdName[1..n]: each entry
\* still pending, failed after max_retries timeouts, or downloaded.
RECURSIVE LedgerAfterRun(_, _)
LedgerAfterRun(n, how) ==
    IF n = 0 THEN EmptyState
    ELSE LET id == IdName[n]
             st == register_meeting(LedgerAfterRun(n - 1, how), id, TitleOf(id), UrlOf(id))
             t1 == record_attempt(st, id, "navigation", FALSE, "Page load timeout")
             t2 == record_attempt(t1, id, "navigation", FALSE, "Page load timeout")
             t3 == record_attempt(t2, id, "navigation", FALSE, "Page load timeout")
         IN  CASE how[n] = "pending" -> st
               [] how[n] = "failed" -> mark_failure(t3, id)
               [] OTHER -> strategy_call(st, id, "text_extraction", "ok")

\* the state at discovery of a run that found no state file and needed no login
RunInit ==
    /\ file = <<>>
    /\ state = load_state(file)
    /\ last = Call("load", None)
    /\ disk = NoFault
    /\ \E n \in 0..MaxListing :
          /\ listing = [k \in 1..n |-> IdName[k]]
          /\ page \in [{IdName[k] : k \in 1..n} -> PageKinds]
    /\ num \in {0, 1}
    /\ reset = FALSE /\ login = None /\ prior = file
    /\ session_file = <<>> /\ progress_file = <<>> /\ shots = {} /\ exit_status = None /\ interrupt = "none"
    /\ pc = "discover" /\ link = 1 /\ meetings = <<>> /\ pending = <<>>
    /\ item = 0 /\ retry = 0 /\ strategy = 0 /\ waits = <<>>
    /\ success_count = 0 /\ final_stats = None /\ result = None
    /\ NoFn
    /\ NoPool

\* extract_meeting_info, one anchor: a new id is appended and registered; the
\* loop's `except Exception: continue` drops an exception of register_meeting
ExtractLink ==
    /\ pc = "discover" /\ link <= Len(listing)
    /\ LET id == listing[link]
           c == Then(Ctx(state, file, disk),
                     register_meeting(state, id, TitleOf(id), UrlOf(id)))
       IN  IF \E k \in 1..Len(meetings) : meetings[k].id = id
           THEN UNCHANGED <<meetings, ledgerVars, pc>>
           ELSE /\ meetings' = Append(meetings, Item(id))
                /\ state' = c.state /\ file' = c.file /\ disk' = c.disk
                /\ last' = Call("register_meeting", id)
                /\ pc' = IF c.exc = "died" THEN "crashed" ELSE pc
    /\ link' = link + 1
    /\ UNCHANGED <<poolVars, envVars, fnVars, sysVars, pending, item, retry, strategy, waits,
                   success_count, final_stats, result>>

\* extract_meeting_info's end, the num cut and the pending filter
FilterPending ==
    /\ pc = "discover" /\ link > Len(listing)
    /\ LET c == Then(Ctx(state, file, disk),
                     [state EXCEPT !.total_meetings_found = Len(meetings)])
           cut == IF num # 0 THEN Take(meetings, num) ELSE meetings
           todo == SelectSeq(cut, LAMBDA m : ~is_downloaded(c.state, m.id))
       IN  /\ state' = c.state /\ file' = c.file /\ disk' = c.disk
           /\ last' = Call("save", None)
           /\ IF c.exc # "none"
              THEN /\ pc' = Landing(c, pc)
                   /\ UNCHANGED <<meetings, pending, result, item, shots>>
              ELSE /\ meetings' = IF meetings = <<>> THEN meetings ELSE cut
                   /\ pending' = IF meetings = <<>> THEN <<>> ELSE todo
                   /\ shots' = IF meetings = <<>> THEN shots \cup {"debug_no_meetings"}
                               ELSE shots
                   /\ IF meetings = <<>>
                      THEN pc' = "done" /\ result' = "False" /\ item' = item
                      ELSE IF todo = <<>>
                      THEN pc' = "done" /\ result' = "True" /\ item' = item
                      ELSE pc' = "download_meeting" /\ result' = result /\ item' = 1
    /\ UNCHANGED <<poolVars, envVars, fnVars, session_file, progress_file, exit_status, interrupt,
                   link, retry, strategy, waits, success_count, final_stats>>

\* download_meeting's entry: an id in successful_downloads returns True at once
DownloadMeeting ==
    /\ pc = "download_meeting"
    /\ IF is_downloaded(state, pending[item].id)
       THEN /\ pc' = "next" /\ success_count' = success_count + 1
       ELSE /\ pc' = "goto" /\ success_count' = success_count
    /\ retry' = 0 /\ waits' = <<>> /\ strategy' = 0
    /\ UNCHANGED <<poolVars, ledgerVars, envVars, fnVars, sysVars, link, meetings, pending, item,
                   final_stats, result>>

GotoAborts ==
    /\ pc = "goto"
    /\ LET id == pending[item].id
           nav == Navigation(page[id], retry)
           c == Then(Ctx(state, file, disk),
                     record_attempt(state, id, "navigation", FALSE,
                              IF nav = "timeout" THEN "Page load timeout" ELSE "exception"))
       IN  IF nav = "ok"
           THEN /\ pc' = "strategy" /\ strategy' = 1
                /\ UNCHANGED ledgerVars
           ELSE /\ pc' = Landing(c, "next") /\ strategy' = strategy
                /\ state' = c.state /\ file' = c.file /\ disk' = c.disk
                /\ last' = Call("record_attempt", id)
    /\ UNCHANGED <<poolVars, envVars, fnVars, sysVars, link, meetings, pending, item, retry, waits,
                   success_count, final_stats, result>>

\* page.goto of one attempt; a timeout or an error is recorded as a failed attempt
\* by the except clauses, which nothing in download_meeting covers
Goto ==
    /\ pc = "goto"
    /\ LET id == pending[item].id
           nav == Navigation(page[id], retry)
           c == Then(Ctx(state, file, disk),
                     record_attempt(state, id, "navigation", FALSE,
                              IF nav = "timeout" THEN "Page load timeout" ELSE "exception"))
       IN  IF nav = "ok"
           THEN /\ pc' = "strategy" /\ strategy' = 1
                /\ UNCHANGED ledgerVars
           ELSE /\ pc' = Landing(c, "attempt_failed") /\ strategy' = strategy
                /\ state' = c.state /\ file' = c.file /\ disk' = c.disk
                /\ last' = Call("record_attempt", id)
    /\ UNCHANGED <<poolVars, envVars, fnVars, sysVars, link, meetings, pending, item, retry, waits,
                   success_count, final_stats, result>>

\* one strategy of the chain; the first that returns a path ends download_meeting.
\* An exception that leaves the strategy is dropped by `except Exception as e:
\* logger.debug(..)` and the chain goes on.
Strategy ==
    /\ pc = "strategy"
    /\ LET id == pending[item].id
           method == strategies[strategy]
           outcome == Outcome(page[id], method)
           c0 == Ctx(state, file, disk)
           c == strategy_run(c0, id, method, outcome)
           path == outcome = "ok" /\ strategy_try(c0, id, method, outcome).exc = "none"
       IN  /\ state' = c.state /\ file' = c.file /\ disk' = c.disk
           /\ last' = Call(IF path THEN "mark_success" ELSE "record_attempt", id)
           /\ IF c.exc = "died"
              THEN pc' = "crashed" /\ UNCHANGED <<strategy, success_count>>
              ELSE IF path
              THEN pc' = "next" /\ success_count' = success_count + 1
                   /\ strategy' = strategy
              ELSE IF strategy < Len(strategies)
              THEN pc' = "strategy" /\ strategy' = strategy + 1
                   /\ success_count' = success_count
              ELSE pc' = "attempt_failed" /\ strategy' = strategy
                   /\ success_count' = success_count
    /\ UNCHANGED <<poolVars, envVars, fnVars, sysVars, link, meetings, pending, item, retry, waits,
                   final_stats, result>>

wait_time_fixed(r) == 2

\* wait_time = (2 ** retry) * 2
wait_time(r) == (2 ^ r) * 2

\* the exponential backoff between two attempts
Backoff ==
    /\ pc = "attempt_failed" /\ retry < max_retries - 1
    /\ waits' = Append(waits, wait_time(retry))
    /\ retry' = retry + 1
    /\ pc' = "goto"
    /\ UNCHANGED <<poolVars, ledgerVars, envVars, fnVars, sysVars, link, meetings, pending, item, strategy,
                   success_count, final_stats, result>>

\* after the last attempt: mark_failure, and download_meeting returns False
GiveUp ==
    /\ pc = "attempt_failed" /\ ~(retry < max_retries - 1)
    /\ LET c == Then(Ctx(state, file, disk),
                     mark_failure(state, pending[item].id))
       IN  /\ state' = c.state /\ file' = c.file /\ disk' = c.disk
           /\ pc' = Landing(c, "next")
    /\ last' = Call("mark_failure", pending[item].id)
    /\ UNCHANGED <<poolVars, envVars, fnVars, sysVars, link, meetings, pending, item, retry, strategy, waits,
                   success_count, final_stats, result>>

\* the for loop over pending
NextMeeting ==
    /\ pc = "next" /\ item < Len(pending)
    /\ item' = item + 1
    /\ pc' = "download_meeting"
    /\ UNCHANGED <<poolVars, ledgerVars, envVars, fnVars, sysVars, link, meetings, pending, retry, strategy,
                   waits, success_count, final_stats, result>>

\* the final report: get_stats, the run_history record, save, the return value
Report ==
    /\ pc = "next" /\ item = Len(pending)
    /\ final_stats' = get_stats(state)
    /\ LET c == Then(Ctx(state, file, disk),
                     [state EXCEPT !.run_history = Append(@,
                                    [ meetings_processed |-> Len(pending),
                                      successful |-> success_count,
                                      failed |-> Len(pending) - success_count ])])
       IN  /\ state' = c.state /\ file' = c.file /\ disk' = c.disk
           /\ pc' = Landing(c, "done")
           /\ result' = IF c.exc # "none" THEN result
                        ELSE IF final_stats'.failed = 0 THEN "True" ELSE "False"
    /\ last' = Call("save", None)
    /\ UNCHANGED <<poolVars, envVars, fnVars, sysVars, link, meetings, pending, item, retry, strategy, waits,
                   success_count>>

RunNext ==
    \/ ExtractLink \/ FilterPending \/ DownloadMeeting \/ Goto \/ Strategy
    \/ Backoff \/ GiveUp \/ NextMeeting \/ Report

Spec == RunInit /\ [][RunNext]_vars

\* ------------------------------------------------------- a whole process: main()
\* entries in the state file a later run starts from
MaxPrior == 2
\* anchors on the listing page of a later run
MaxRelisted == 2

OTTER_LOGIN_URL == "https://otter.ai/signin"
OTTER_CONVERSATIONS_URL == "https://otter.ai/my-notes"
HomeUrl == "https://otter.ai/home"
WelcomeUrl == "https://otter.ai/welcome"

\* `word in url`, for the words the code looks for
Contains(url, word) ==
    CASE url = OTTER_LOGIN_URL -> word = "signin"
      [] url = HomeUrl -> word = "home"
      [] OTHER -> FALSE

\* What the sign-in form does:
\*   accepted  the account's home page follows
\*   refused   the form shows an error and stays
\*   no_form   the e-mail or password field never appears
\*   unclear   another page follows, no error shown, nobody signed in
LoginKinds == {"accepted", "refused", "no_form", "unclear"}

UrlAfterLogin(kind) ==
    CASE kind = "accepted" -> HomeUrl
      [] kind = "unclear" -> WelcomeUrl
      [] OTHER -> OTTER_LOGIN_URL

automated_login(kind) ==
    LET current_url == UrlAfterLogin(kind)
    IN  CASE kind = "no_form" -> FALSE
          [] Contains(current_url, "home") \/ Contains(current_url, "workspace")
                \/ Contains(current_url, "conversations") -> TRUE
          [] kind = "refused" -> FALSE
          [] OTHER -> ~Contains(current_url, "signin")

\* where page.goto(OTTER_CONVERSATIONS_URL) ends: the server sends a browser
\* context without a valid session to the sign-in page
Landed(signed_in) == IF signed_in THEN OTTER_CONVERSATIONS_URL ELSE OTTER_LOGIN_URL

needs_login(current_url) ==
    Contains(current_url, "signin") \/ Contains(current_url, "login")
        \/ Contains(current_url, "sign-in")

still_on_login_never(current_url) == FALSE

still_on_login(current_url) ==
    Contains(current_url, "signin") \/ Contains(current_url, "login")

unlink_kept(f) == f

\* `if X.exists(): X.unlink()`
unlink(f) == <<>>

\* the pages of a later run
RerunPageKinds == {"text", "timeout"}

\* the state files a later run may find: none, one left by an earlier run, or
\* one whose last write stopped part way
PriorFiles ==
    {<<>>, <<LedgerAfterRun(1, <<"success">>), "truncated">>}
        \cup {<<LedgerAfterRun(n, how)>> :
                 n \in 1..MaxPrior, how \in [1..MaxPrior -> {"pending", "failed", "success"}]}

\* run_download has built DownloadState()
RerunInit ==
    /\ prior \in PriorFiles
    /\ file = prior
    /\ state = load_state(file)
    /\ last = Call("load", None)
    /\ disk = NoFault
    /\ \E n \in 0..MaxRelisted :
          /\ listing = [k \in 1..n |-> IdName[k]]
          /\ page \in [{IdName[k] : k \in 1..n} -> RerunPageKinds]
    /\ num \in {0, 1}
    /\ reset \in BOOLEAN
    /\ login \in LoginKinds
    /\ session_file \in {<<>>, <<"valid">>, <<"expired">>}
    /\ progress_file \in {<<>>, <<"progress">>}
    /\ shots = {} /\ exit_status = None /\ interrupt = "none"
    /\ pc = "start" /\ link = 1 /\ meetings = <<>> /\ pending = <<>>
    /\ item = 0 /\ retry = 0 /\ strategy = 0 /\ waits = <<>>
    /\ success_count = 0 /\ final_stats = None /\ result = None
    /\ NoFn
    /\ NoPool

\* the reset branch: the three files are deleted and DownloadState() is built again
Start ==
    /\ pc = "start"
    /\ IF reset
       THEN /\ file' = unlink(file)
            /\ progress_file' = unlink(progress_file)
            /\ session_file' = unlink(session_file)
            /\ state' = load_state(file')
            /\ last' = Call("load", None)
       ELSE UNCHANGED <<file, progress_file, session_file, state, last>>
    /\ pc' = "login"
    /\ UNCHANGED <<disk, envVars, fnVars, shots, exit_status, interrupt, poolVars, link, meetings, pending,
                   item, retry, strategy, waits, success_count, final_stats, result>>

\* the browser context, the navigation to the conversations page and the login
Login ==
    /\ pc = "login"
    /\ LET c == save(Ctx(state, file, disk))
           signed_in == login = "accepted"
       IN  IF ~needs_login(Landed(session_file = <<"valid">>))
           THEN /\ pc' = "discover"
                /\ UNCHANGED <<ledgerVars, session_file, shots, result>>
           ELSE IF ~automated_login(login)
           THEN /\ shots' = shots \cup {"debug_login_failed"}
                /\ result' = "False" /\ pc' = "done"
                /\ UNCHANGED <<ledgerVars, session_file>>
           ELSE /\ session_file' = <<IF signed_in THEN "valid" ELSE "expired">>
                /\ state' = c.state /\ file' = c.file /\ disk' = c.disk
                /\ last' = Call("save", None)
                /\ IF c.exc # "none"
                   THEN pc' = Landing(c, pc) /\ UNCHANGED <<shots, result>>
                   ELSE IF still_on_login(Landed(signed_in))
                   THEN /\ shots' = shots \cup {"debug_still_on_login"}
                        /\ result' = "False" /\ pc' = "done"
                   ELSE pc' = "discover" /\ UNCHANGED <<shots, result>>
    /\ UNCHANGED <<envVars, fnVars, progress_file, exit_status, interrupt, poolVars, link, meetings, pending,
                   item, retry, strategy, waits, success_count, final_stats>>

\* run_download's `except Exception`: the screenshot, state.save(), raise
Fatal ==
    /\ pc = "fatal"
    /\ shots' = shots \cup {"debug_fatal_error"}
    /\ LET c == save(Ctx(state, file, disk))
       IN  /\ state' = c.state /\ file' = c.file /\ disk' = c.disk
           /\ pc' = IF c.exc = "died" THEN "crashed" ELSE "raised"
    /\ last' = Call("save", None)
    /\ UNCHANGED <<envVars, fnVars, session_file, progress_file, exit_status, interrupt, poolVars, link,
                   meetings, pending, item, retry, strategy, waits, success_count,
                   final_stats, result>>

\* main: exit(0 if success else 1), exit(130) on KeyboardInterrupt, and exit(1)
\* on an exception
Main ==
    /\ pc \in {"done", "raised", "interrupted"}
    /\ exit_status' = CASE pc = "interrupted" -> "130"
                       [] pc = "done" /\ result = "True" -> "0"
                       [] OTHER -> "1"
    /\ pc' = "exited"
    /\ UNCHANGED <<ledgerVars, envVars, fnVars, session_file, progress_file, shots, interrupt,
                   poolVars, link,
                   meetings, pending, item, retry, strategy, waits, success_count,
                   final_stats, result>>

RerunNext == Start \/ Login \/ RunNext \/ Main

\* a later run of the sequential downloader, from main() to exit
SpecRerun == RerunInit /\ [][RerunNext]_vars

\* ------------------------------------------------------- a run that is interrupted
\* The interpreter raises KeyboardInterrupt in the main thread at the point the
\* run has reached.  bare_except: that point lies in a try block with a bare
\* `except:` clause, which catches KeyboardInterrupt as it catches everything:
\* the queries of close_popups, after a page.goto that went through, and the
\* queries of strategy_text_extraction.
bare_except ==
    \/ pc = "goto" /\ Navigation(page[pending[item].id], retry) = "ok"
    \/ pc = "strategy" /\ strategies[strategy] = "text_extraction"

\* One interrupt signal during run_download.  Caught by a bare except it is
\* dropped (`continue`, `pass`) and the run goes on from where it is; anywhere
\* else it passes the `except Exception` clauses and leaves run_download through
\* `finally: browser.close()`.
Interrupt ==
    /\ interrupt = "none"
    /\ pc \in {"discover", "download_meeting", "goto", "strategy", "attempt_failed", "next"}
    /\ \/ /\ bare_except
          /\ interrupt' = "swallowed" /\ pc' = pc
       \/ /\ interrupt' = "raised" /\ pc' = "interrupted"
    /\ UNCHANGED <<ledgerVars, envVars, fnVars, poolVars, session_file, progress_file, shots,
                   exit_status, link, meetings, pending, item, retry, strategy, waits,
                   success_count, final_stats, result>>

\* a first run during which the user presses Ctrl-C once
SpecInterrupt == RunInit /\ [][RunNext \/ Interrupt \/ Main]_vars

\* ------------------------------------------------------- a run on a failing disk
\* the write of the state file, counted from discovery, that fails
MaxFault == 8

FaultInit ==
    /\ file = <<>>
    /\ state = load_state(file)
    /\ last = Call("load", None)
    /\ disk \in [left : 1..MaxFault, kind : FaultKinds]
    /\ \E n \in 1..MaxRelisted :
          /\ listing = [k \in 1..n |-> IdName[k]]
          /\ page \in [{IdName[k] : k \in 1..n} -> PageKinds]
    /\ num = 0
    /\ reset = FALSE /\ login = None /\ prior = file
    /\ session_file = <<>> /\ progress_file = <<>> /\ shots = {} /\ exit_status = None /\ interrupt = "none"
    /\ pc = "discover" /\ link = 1 /\ meetings = <<>> /\ pending = <<>>
    /\ item = 0 /\ retry = 0 /\ strategy = 0 /\ waits = <<>>
    /\ success_count = 0 /\ final_stats = None /\ result = None
    /\ NoFn
    /\ NoPool

FaultNext == RunNext \/ Fatal \/ Main

\* a first run during which one write of the state file fails
SpecFault == FaultInit /\ [][FaultNext]_vars

\* ------------------------------------------------------- ParallelState
\* the fresh state of ParallelState._load_state
ParEmptyState ==
    [ meetings |-> <<>>,
      successful_downloads |-> <<>>,
      failed_downloads |-> <<>> ]

p_load_state(f) == IF Len(f) = 1 THEN f[1] ELSE ParEmptyState

\* d[k] = v on a dict that may lack the key
SetField(d, k, v) == [x \in DOMAIN d \cup {k} |-> IF x = k THEN v ELSE d[x]]

\* the body of ParallelState.mark_success, up to its call of self.save()
p_mark_success(st, id, path, file_size) ==
    LET ok == IF ~InList(id, st.successful_downloads)
              THEN Append(st.successful_downloads, id)
              ELSE st.successful_downloads
        ms == IF HasMeeting(st.meetings, id)
              THEN [st.meetings EXCEPT ![IndexOf(st.meetings, id)] =
                        [@ EXCEPT !.status = "success",
                                  !.download_path = path,
                                  !.file_size = file_size,
                                  !.method_used = "text_extraction"]]
              ELSE st.meetings
    IN  [st EXCEPT !.successful_downloads = ok, !.meetings = ms]

\* the body of ParallelState.mark_failure, up to its call of self.save()
p_mark_failure(st, id, error) ==
    LET ko == IF ~InList(id, st.failed_downloads)
              THEN Append(st.failed_downloads, id)
              ELSE st.failed_downloads
        ms == IF HasMeeting(st.meetings, id)
              THEN [st.meetings EXCEPT ![IndexOf(st.meetings, id)] =
                        SetField([@ EXCEPT !.status = "failed"], "error", error)]
              ELSE st.meetings
    IN  [st EXCEPT !.failed_downloads = ko, !.meetings = ms]

\* ParallelState.get_pending_meetings: the entries whose id is not in successful_downloads
p_get_pending_meetings(st) ==
    SelectSeq(st.meetings, LAMBDA m : ~InList(m.id, st.successful_downloads))

p_get_progress(st) ==
    [downloaded |-> Len(st.successful_downloads), total |-> Len(st.meetings)]

\* threading.Lock: acquire() succeeds only while no thread owns the lock,
\* the calling thread included
Acquirable(l, t) == l = {}

\* ------------------------------------------------------- run_parallel_download
\* entries in the state file a parallel run starts from
ParItems == 3
\* worker threads of the pool (num_workers)
PoolSize == 2

Workers == 1..PoolSize

\* what a worker's page gives: transcript text, nothing, or an exception
ParPageKinds == {"content", "empty", "error"}

Thread(p, id, error, ret) == [pc |-> p, id |-> id, error |-> error, ret |-> ret]

ParInit ==
    /\ \/ file \in {<<>>, <<LedgerAfterRun(1, <<"pending">>), "truncated">>} /\ page = <<>>
       \/ \E n \in 1..ParItems :
            /\ \E how \in [1..n -> {"pending", "failed", "success"}] :
                   file = <<LedgerAfterRun(n, how)>>
            /\ page \in [{IdName[k] : k \in 1..n} -> ParPageKinds]
    /\ state = p_load_state(file)
    /\ last = Call("load", None)
    /\ disk = NoFault
    /\ lock = {}
    /\ threads = [t \in 0..PoolSize |->
                    Thread(IF t = 0 THEN "get_pending" ELSE "idle", None, None, None)]
    /\ queue = <<>> /\ futures = <<>>
    /\ download_count = 0 /\ progress = None
    /\ listing = <<>> /\ num = 0
    /\ reset = FALSE /\ login = None /\ prior = file
    /\ session_file = <<>> /\ progress_file = <<>> /\ shots = {} /\ exit_status = None /\ interrupt = "none"
    /\ pc = "idle" /\ link = 0 /\ meetings = <<>> /\ pending = <<>>
    /\ item = 0 /\ retry = 0 /\ strategy = 0 /\ waits = <<>>
    /\ success_count = 0 /\ final_stats = None /\ result = None
    /\ NoFn

AllDone == \A id \in DOMAIN futures : futures[id] # "running"

\* the main thread up to the last submit: get_pending_meetings, get_progress,
\* one future per pending meeting
Submit ==
    /\ threads[0].pc = "get_pending"
    /\ Acquirable(lock, 0)
    /\ pending' = p_get_pending_meetings(state)
    /\ progress' = p_get_progress(state)
    /\ IF pending' = <<>>
       THEN /\ threads' = [threads EXCEPT ![0].pc = "no_pending"]
            /\ UNCHANGED <<queue, futures>>
       ELSE /\ threads' = [threads EXCEPT ![0].pc = "as_completed"]
            /\ queue' = pending'
            /\ futures' = [id \in MeetingIds(pending') |-> "running"]
    /\ UNCHANGED <<ledgerVars, envVars, fnVars, sysVars, lock, download_count, pc, link, meetings,
                   item, retry, strategy, waits, success_count, final_stats, result>>

\* the main thread's last get_progress: at once when nothing is pending, else
\* when as_completed has yielded every future
Finish ==
    /\ threads[0].pc \in {"no_pending", "as_completed"}
    /\ threads[0].pc = "as_completed" => AllDone
    /\ Acquirable(lock, 0)
    /\ progress' = p_get_progress(state)
    /\ success_count' = Cardinality({id \in DOMAIN futures : futures[id] = "True"})
    /\ threads' = [threads EXCEPT ![0].pc = "returned"]
    /\ UNCHANGED <<ledgerVars, envVars, fnVars, sysVars, lock, queue, futures, download_count, pc,
                   link, meetings, pending, item, retry, strategy, waits,
                   final_stats, result>>

\* an idle pool thread takes the next work item: download_single_transcript starts
TakeTask(t) ==
    /\ threads[t].pc = "idle" /\ queue # <<>>
    /\ threads' = [threads EXCEPT ![t] = Thread("is_downloaded", Head(queue).id, None, None)]
    /\ queue' = Tail(queue)
    /\ UNCHANGED <<ledgerVars, envVars, fnVars, sysVars, runVars, lock, futures, download_count, progress>>

\* A `with self.lock:` block that calls no other method of ParallelState, from its
\* acquire to its release: is_downloaded, get_progress, save.  save is entered from
\* mark_success and mark_failure only; were its block ever to run, its exit would
\* release the lock and the caller's exit would then raise RuntimeError (release
\* of an unlocked lock), caught by download_single_transcript's except clause.
\* After get_progress the task returns True through `finally: context.close();
\* browser.close()`; an exception of the cleanup is caught by the same except
\* clause, which calls mark_failure.
WithLock(t) ==
    /\ threads[t].pc \in {"is_downloaded", "get_progress", "save"}
    /\ Acquirable(lock, t)
    /\ lock' = {}
    /\ LET id == threads[t].id
       IN  CASE threads[t].pc = "is_downloaded" ->
                  /\ IF is_downloaded(state, id)
                     THEN /\ futures' = [futures EXCEPT ![id] = "True"]
                          /\ threads' = [threads EXCEPT ![t] = Thread("idle", None, None, None)]
                     ELSE /\ futures' = futures
                          /\ threads' = [threads EXCEPT ![t].pc = "extract"]
                  /\ UNCHANGED file
             [] threads[t].pc = "get_progress" ->
                  /\ \/ /\ futures' = [futures EXCEPT ![id] = "True"]
                        /\ threads' = [threads EXCEPT ![t] = Thread("idle", None, None, None)]
                     \/ /\ futures' = futures
                        /\ threads' = [threads EXCEPT ![t] =
                                          Thread("mark_failure", id, "exception", None)]
                  /\ UNCHANGED file
             [] OTHER ->
                  /\ file' = <<state>>
                  /\ IF threads[t].ret = "mark_success"
                     THEN /\ threads' = [threads EXCEPT ![t] =
                                            Thread("mark_failure", id, "exception", None)]
                          /\ futures' = futures
                     ELSE /\ threads' = [threads EXCEPT ![t] = Thread("idle", None, None, None)]
                          /\ futures' = [futures EXCEPT ![id] = "raised"]
    /\ UNCHANGED <<state, last, disk, envVars, fnVars, sysVars, runVars, queue, download_count, progress>>

\* the browser, page.goto and extract_transcript_text, outside the lock
Extract(t) ==
    /\ threads[t].pc = "extract"
    /\ LET kind == page[threads[t].id]
       IN  threads' = [threads EXCEPT ![t].pc =
                            IF kind = "content" THEN "mark_success" ELSE "mark_failure",
                                      ![t].error =
                            CASE kind = "content" -> None
                              [] kind = "empty" -> "No transcript content found"
                              [] OTHER -> "exception"]
    /\ UNCHANGED <<ledgerVars, envVars, fnVars, sysVars, runVars, lock, queue, futures,
                   download_count, progress>>

\* mark_success: takes the lock, changes the state and, owning the lock, calls save
ParMarkSuccess(t) ==
    /\ threads[t].pc = "mark_success"
    /\ Acquirable(lock, t)
    /\ lock' = {t}
    /\ state' = p_mark_success(state, threads[t].id, "f.txt", "s1")
    /\ download_count' = download_count + 1
    /\ last' = Call("mark_success", threads[t].id)
    /\ threads' = [threads EXCEPT ![t].pc = "save", ![t].ret = "mark_success"]
    /\ UNCHANGED <<file, disk, envVars, fnVars, sysVars, runVars, queue, futures, progress>>

\* mark_failure: takes the lock, changes the state and, owning the lock, calls save
ParMarkFailure(t) ==
    /\ threads[t].pc = "mark_failure"
    /\ Acquirable(lock, t)
    /\ lock' = {t}
    /\ state' = p_mark_failure(state, threads[t].id, threads[t].error)
    /\ last' = Call("mark_failure", threads[t].id)
    /\ threads' = [threads EXCEPT ![t].pc = "save", ![t].ret = "mark_failure"]
    /\ UNCHANGED <<file, disk, envVars, fnVars, sysVars, runVars, queue, futures, download_count, progress>>

ParNext ==
    \/ Submit
    \/ Finish
    \/ \E t \in Workers :
          TakeTask(t) \/ WithLock(t) \/ Extract(t) \/ ParMarkSuccess(t) \/ ParMarkFailure(t)

SpecPar == ParInit /\ [][ParNext]_vars

\* ------------------------------------------------------- one item, called on its own
\* entries in the ledger the call finds
MaxCall == 2
\* the write of the state file, counted from the call, that fails
MaxCallFault == 4

\* download_meeting(page, meeting, state), or download_single_transcript(meeting,
\* state, worker_id) in a pool thread, called for any entry of a ledger that
\* earlier runs left behind, the downloaded entries included
CallInit ==
    /\ \E n \in 1..MaxCall :
          /\ \E how \in [1..n -> {"pending", "failed", "success"}] :
                file = <<LedgerAfterRun(n, how)>>
          /\ listing = [k \in 1..n |-> IdName[k]]
    /\ state = load_state(file)
    /\ last = Call("load", None)
    /\ \E k \in 1..Len(listing) :
          \/ /\ pending = <<Item(listing[k])>> /\ item = 1
             /\ pc = "download_meeting"
             /\ page \in [{listing[k]} -> PageKinds \cup {"once"}]
             /\ disk \in {NoFault} \cup [left : 1..MaxCallFault, kind : FaultKinds]
             /\ queue = <<>> /\ futures = <<>>
          \/ /\ pending = <<>> /\ item = 0
             /\ pc = "idle"
             /\ page \in [{listing[k]} -> ParPageKinds]
             /\ disk = NoFault
             /\ queue = <<Item(listing[k])>>
             /\ futures = [id \in {listing[k]} |-> "running"]
    /\ lock = {}
    /\ threads = [t \in 0..PoolSize |->
                    Thread(IF t = 0 THEN "as_completed" ELSE "idle", None, None, None)]
    /\ download_count = 0 /\ progress = None
    /\ num = 0
    /\ reset = FALSE /\ login = None /\ prior = file
    /\ session_file = <<>> /\ progress_file = <<>> /\ shots = {} /\ exit_status = None /\ interrupt = "none"
    /\ link = 0 /\ meetings = <<>>
    /\ retry = 0 /\ strategy = 0 /\ waits = <<>>
    /\ success_count = 0 /\ final_stats = None /\ result = None
    /\ NoFn

CallNext ==
    \/ DownloadMeeting \/ Goto \/ Strategy \/ Backoff \/ GiveUp
    \/ \E t \in Workers :
          TakeTask(t) \/ WithLock(t) \/ Extract(t) \/ ParMarkSuccess(t) \/ ParMarkFailure(t)

SpecCall == CallInit /\ [][CallNext]_vars

\* ------------------------------------------------------- scroll_to_load_all
\* the ledger, the run and the pool while one function is called on its own
Apart ==
    /\ file = <<>> /\ state = load_state(file) /\ last = Call("load", None)
    /\ disk = NoFault
    /\ listing = <<>> /\ page = <<>> /\ num = 0
    /\ reset = FALSE /\ login = None /\ prior = file
    /\ session_file = <<>> /\ progress_file = <<>> /\ shots = {} /\ exit_status = None /\ interrupt = "none"
    /\ link = 0 /\ meetings = <<>> /\ pending = <<>>
    /\ item = 0 /\ retry = 0 /\ strategy = 0 /\ waits = <<>>
    /\ success_count = 0 /\ final_stats = None /\ result = None
    /\ NoPool

\* the `no_change_count < 15` of the while condition
NoChangeLimit == 15

actual_max_scrolls_default(quick) == 500

\* run_download's actual_max_scrolls
actual_max_scrolls(quick) == IF quick THEN 2 ELSE 500

\* A feed is the set of scroll iterations at which the listing grows by one card;
\* 0 stands for a card that is there before the first scroll.  Growth is tried at
\* the first iterations and again after a pause about as long as the loop's
\* patience.
MaxEarly == 3
GrowthTimes == (0..MaxEarly) \cup {NoChangeLimit + 2, NoChangeLimit + 3}

\* feeds that never come to rest within max_scrolls: one that grows at every
\* iteration, one that grows at every 14th
Endless == 1..(actual_max_scrolls(FALSE) + 1)
Slow == {t \in Endless : t % (NoChangeLimit - 1) = 0}
Feeds == SUBSET GrowthTimes \cup {Endless, Slow}

\* len(page.query_selector_all(..)) after k scrolls
CountAfter(feed, k) == Cardinality({t \in feed : t <= k})

no_change_kept(current_count, previous, n) == n + 1

\* the if/else on current_count == previous_count
no_change(current_count, previous, n) ==
    IF current_count = previous THEN n + 1 ELSE 0

ScrollInit ==
    /\ input \in [feed : Feeds, quick : BOOLEAN]
    /\ output = <<>>
    /\ previous_count = 0 /\ no_change_count = 0 /\ scroll_count = 0
    /\ pc = "scroll"
    /\ Apart

\* one iteration of the while loop
Scroll ==
    /\ pc = "scroll"
    /\ no_change_count < NoChangeLimit
    /\ scroll_count < actual_max_scrolls(input.quick)
    /\ scroll_count' = scroll_count + 1
    /\ LET current_count == CountAfter(input.feed, scroll_count')
       IN  /\ no_change_count' = no_change(current_count, previous_count, no_change_count)
           /\ previous_count' = current_count
    /\ UNCHANGED <<ledgerVars, envVars, sysVars, runVars, poolVars, input, output>>

\* the loop's exit and `return previous_count`
ScrollReturn ==
    /\ pc = "scroll"
    /\ ~(no_change_count < NoChangeLimit /\ scroll_count < actual_max_scrolls(input.quick))
    /\ pc' = "scrolled"
    /\ output' = <<previous_count>>
    /\ UNCHANGED <<ledgerVars, envVars, sysVars, link, meetings, pending, item, retry,
                   strategy, waits, success_count, final_stats, result, poolVars,
                   input, previous_count, no_change_count, scroll_count>>

ScrollNext == Scroll \/ ScrollReturn

SpecScroll == ScrollInit /\ [][ScrollNext]_vars

\* the same with the loop's thread running on: nothing in the loop waits for
\* anything but a fixed sleep
SpecScrollFair == ScrollInit /\ [][ScrollNext]_vars /\ WF_vars(ScrollNext)

\* ------------------------------------------------------- sanitize_filename
\* A str is the sequence of its characters.
\* re.sub(r'[class]', '', s)
Remove(s, class) == SelectSeq(s, LAMBDA ch : ch \notin class)

\* re.sub(r'[class]', '_', s)
Replace(s, class) == [i \in 1..Len(s) |-> IF s[i] \in class THEN "_" ELSE s[i]]

\* re.sub(r'[class]+', '_', s): one underscore for each maximal run
Collapse(s, class) ==
    LET first == SelectSeq([i \in 1..Len(s) |-> i],
                           LAMBDA i : s[i] \notin class \/ i = 1 \/ s[i - 1] \notin class)
    IN  [k \in 1..Len(first) |-> IF s[first[k]] \in class THEN "_" ELSE s[first[k]]]

\* s.strip(chars)
Strip(s, chars) ==
    LET keep == {i \in 1..Len(s) : s[i] \notin chars}
    IN  IF keep = {} THEN <<>>
        ELSE SubSeq(s, CHOOSE i \in keep : \A j \in keep : i <= j,
                       CHOOSE i \in keep : \A j \in keep : j <= i)

\* what \s matches among the characters used here
Whitespace == {" ", "\t", "\n", "\r", "\f"}

\* the character class of the sequential sanitizer's first re.sub
SeqClass == {"<", ">", ":", "\"", "/", "\\", "|", "?", "*", "\n", "\r", "\t"}

\* the character class of the parallel sanitizer's first re.sub
ParClass == {"<", ">", ":", "\"", "/", "\\", "|", "?", "*", "\n", "\r"}

\* name[:80]
MaxNameLen == 80

\* the default of the parallel sanitizer's max_length
max_length == 100

sanitize_filename_strip_first(name) ==
    Take(Strip(Collapse(Collapse(Remove(name, SeqClass), Whitespace), {"_"}), {"_"}),
         MaxNameLen)

\* otter_downloader.sanitize_filename
sanitize_filename(name) ==
    LET a == Remove(name, SeqClass)
        b == Collapse(a, Whitespace)
        c == Collapse(b, {"_"})
    IN  Strip(Take(c, MaxNameLen), {"_"})

\* otter_parallel.sanitize_filename
p_sanitize_filename(title, max) ==
    LET safe == Collapse(Replace(title, ParClass), {"_"})
    IN  Strip(Take(safe, max), {"_"})

\* The names the sanitizers are called on: a run of letters that is empty or ends
\* two characters before one of the two maximum lengths, then up to MaxTail
\* characters of any kind.
MaxTail == 4
NameChars == {"a", "_", " ", "<", "\t"}
Rep(ch, n) == [i \in 1..n |-> ch]
Tails == UNION {[1..n -> NameChars] : n \in 0..MaxTail}
Names == {Rep("a", n) \o t : n \in {0, MaxNameLen - 2, max_length - 2}, t \in Tails}

SanitizeInit ==
    /\ input \in Names
    /\ output = <<>>
    /\ previous_count = 0 /\ no_change_count = 0 /\ scroll_count = 0
    /\ pc = "call"
    /\ Apart

\* the sequential sanitizer on the name, then on its own result
Sanitize ==
    /\ \/ pc = "call" /\ output' = <<sanitize_filename(input)>>
       \/ pc = "sanitize_filename" /\ Len(output) = 1
            /\ output' = Append(output, sanitize_filename(output[1]))
    /\ pc' = "sanitize_filename"
    /\ UNCHANGED <<ledgerVars, envVars, sysVars, link, meetings, pending, item, retry,
                   strategy, waits, success_count, final_stats, result, poolVars,
                   input, previous_count, no_change_count, scroll_count>>

\* the parallel sanitizer on the name, then on its own result
ParSanitize ==
    /\ \/ pc = "call" /\ output' = <<p_sanitize_filename(input, max_length)>>
       \/ pc = "p_sanitize_filename" /\ Len(output) = 1
            /\ output' = Append(output, p_sanitize_filename(output[1], max_length))
    /\ pc' = "p_sanitize_filename"
    /\ UNCHANGED <<ledgerVars, envVars, sysVars, link, meetings, pending, item, retry,
                   strategy, waits, success_count, final_stats, result, poolVars,
                   input, previous_count, no_change_count, scroll_count>>

SanitizeNext == Sanitize \/ ParSanitize

SpecSanitize == SanitizeInit /\ [][SanitizeNext]_vars

\* ------------------------------------------------------- extract_meeting_info
\* what [a-zA-Z0-9_-] matches among the characters used here
IdChars == {"a", "b", "u", "0", "_", "-"}

\* re.search(r'/u/([a-zA-Z0-9_-]+)', href).group(1): the longest run of id
\* characters behind the first "/u/" that has one; <<>> when there is no match
meeting_id_of(href) ==
    LET starts == {i \in 1..(Len(href) - 3) :
                      /\ href[i] = "/" /\ href[i + 1] = "u" /\ href[i + 2] = "/"
                      /\ href[i + 3] \in IdChars}
    IN  IF starts = {} THEN <<>>
        ELSE LET i == CHOOSE x \in starts : \A y \in starts : x <= y
                 ends == {j \in (i + 3)..Len(href) :
                             \A k \in (i + 3)..j : href[k] \in IdChars}
             IN  SubSeq(href, i + 3, CHOOSE x \in ends : \A y \in ends : y <= x)

too_short_strict(meeting_id) == Len(meeting_id) <= 10

\* `if len(meeting_id) < 10: continue`
too_short(meeting_id) == Len(meeting_id) < 10

\* f"Meeting_{meeting_id[:10]}"
synthetic_title(meeting_id) ==
    <<"M", "e", "e", "t", "i", "n", "g", "_">> \o Take(meeting_id, 10)

\* the title of an anchor: its stripped inner text, the synthetic title when the
\* text is empty, shorter than 2 or cannot be read; cut to 100 characters
anchor_title(anchor, meeting_id) ==
    LET text == Strip(anchor.text, Whitespace)
        title == IF anchor.detached \/ Len(text) < 2
                 THEN synthetic_title(meeting_id) ELSE text
    IN  Take(title, 100)

\* the for loop over the anchors from the k-th on; meetings and the ledger so far
RECURSIVE extract_links(_, _, _, _)
extract_links(links, k, found, st) ==
    IF k > Len(links) THEN [meetings |-> found, state |-> st]
    ELSE LET link_ == links[k]
             meeting_id == meeting_id_of(link_.href)
             title == anchor_title(link_, meeting_id)
             skip == \/ link_.broken
                     \/ meeting_id = <<>>
                     \/ too_short(meeting_id)
                     \/ \E i \in 1..Len(found) : found[i].id = meeting_id
         IN  IF skip THEN extract_links(links, k + 1, found, st)
             ELSE extract_links(links, k + 1,
                      Append(found, [id |-> meeting_id, title |-> title,
                                     url |-> UrlOf(meeting_id)]),
                      register_meeting(st, meeting_id, title, UrlOf(meeting_id)))

\* The anchors of a listing page.  An anchor has its href (<<>>: no href), its
\* inner text, whether get_attribute raises on it (broken) and whether
\* inner_text raises on it (detached).
MaxAnchors == 3
Anchor(href, text, broken, detached) ==
    [href |-> href, text |-> text, broken |-> broken, detached |-> detached]
HrefTo(meeting_id, tail) == <<"o", "/", "u", "/">> \o meeting_id \o tail
IdA == Rep("a", 10)
IdB == Rep("b", 12)
Anchors ==
    { Anchor(HrefTo(IdA, <<>>), <<" ", "x", "y", " ">>, FALSE, FALSE),
      Anchor(HrefTo(IdA, <<"?", "t">>), Rep("x", 101), FALSE, FALSE),
      Anchor(HrefTo(IdA, <<>>), Rep("x", 101), FALSE, TRUE),
      Anchor(HrefTo(IdB, <<>>), <<>>, FALSE, FALSE),
      Anchor(HrefTo(IdB, <<"/", "u", "/", "a">>), <<" ", "x">>, FALSE, FALSE),
      Anchor(HrefTo(IdB, <<>>), Rep("x", 100), FALSE, FALSE),
      Anchor(HrefTo(Rep("a", 9), <<>>), <<"x", "y">>, FALSE, FALSE),
      Anchor(HrefTo(<<>>, <<"?", "a", "b">>), <<"x", "y">>, FALSE, FALSE),
      Anchor(<<>>, <<"x", "y">>, FALSE, FALSE),
      Anchor(HrefTo(IdA, <<>>), <<"x", "y">>, TRUE, FALSE) }

\* the ledgers extraction may start from: a fresh one, or one that has IdA
\* downloaded under another title
ExtractLedgers ==
    { EmptyState,
      strategy_call(register_meeting(EmptyState, IdA, <<"o", "l", "d">>, UrlOf(IdA)),
                    IdA, "text_extraction", "ok") }

ExtractInit ==
    /\ \E n \in 0..MaxAnchors : input \in [1..n -> Anchors]
    /\ state \in ExtractLedgers
    /\ file = <<state>>
    /\ last = Call("load", None)
    /\ disk = NoFault
    /\ listing = <<>> /\ page = <<>> /\ num = 0
    /\ reset = FALSE /\ login = None /\ prior = file
    /\ session_file = <<>> /\ progress_file = <<>> /\ shots = {} /\ exit_status = None /\ interrupt = "none"
    /\ pc = "extract_meeting_info" /\ link = 0 /\ meetings = <<>> /\ pending = <<>>
    /\ item = 0 /\ retry = 0 /\ strategy = 0 /\ waits = <<>>
    /\ success_count = 0 /\ final_stats = None /\ result = None
    /\ output = <<>>
    /\ previous_count = 0 /\ no_change_count = 0 /\ scroll_count = 0
    /\ NoPool

\* extract_meeting_info as a whole: the loop, total_meetings_found, save, return
ExtractMeetingInfo ==
    /\ pc = "extract_meeting_info"
    /\ LET r == extract_links(input, 1, <<>>, state)
       IN  /\ meetings' = r.meetings
           /\ state' = [r.state EXCEPT !.total_meetings_found = Len(r.meetings)]
    /\ file' = <<state'>>
    /\ last' = Call("save", None)
    /\ pc' = "extracted"
    /\ UNCHANGED <<disk, envVars, sysVars, link, pending, item, retry, strategy, waits,
                   success_count, final_stats, result, poolVars, fnVars>>

ExtractNext == ExtractMeetingInfo

SpecExtract == ExtractInit /\ [][ExtractNext]_vars

\* ------------------------------------------------------- strategy_text_extraction
\* s.split('\n')
Split(s) ==
    LET at == SelectSeq([i \in 1..Len(s) |-> i], LAMBDA i : s[i] = "\n")
        cut == <<0>> \o at \o <<Len(s) + 1>>
    IN  [k \in 1..(Len(at) + 1) |-> SubSeq(s, cut[k] + 1, cut[k + 1] - 1)]

\* sep.join(parts)
RECURSIVE Join(_, _)
Join(parts, sep) ==
    IF parts = <<>> THEN <<>>
    ELSE IF Len(parts) = 1 THEN parts[1]
    ELSE parts[1] \o sep \o Join(Tail(parts), sep)

\* line.lower(), for the capitals used here
Lower(line) ==
    [i \in 1..Len(line) |->
        CASE line[i] = "H" -> "h" [] line[i] = "S" -> "s" [] OTHER -> line[i]]

\* `x in line`
Within(x, line) ==
    \E i \in 1..(Len(line) - Len(x) + 1) : SubSeq(line, i, i + Len(x) - 1) = x

\* ['sign out', 'settings', 'help', 'export', 'share']
Noise ==
    { <<"s", "i", "g", "n", " ", "o", "u", "t">>,
      <<"s", "e", "t", "t", "i", "n", "g", "s">>,
      <<"h", "e", "l", "p">>,
      <<"e", "x", "p", "o", "r", "t">>,
      <<"s", "h", "a", "r", "e">> }

\* the clean-up: the stripped lines longer than 5 that hold none of the noise
\* words, joined by '\n'
clean_text(combined_text) ==
    LET lines == Split(combined_text)
        stripped == [k \in 1..Len(lines) |-> Strip(lines[k], Whitespace)]
        clean_lines == SelectSeq(stripped,
                          LAMBDA line : /\ Len(line) > 5
                                        /\ \A x \in Noise : ~Within(x, Lower(line)))
    IN  Join(clean_lines, <<"\n">>)

\* all_text: the main container's text when it is longer than 500, else the
\* stripped texts longer than 50 of the first transcript selector that has any
RECURSIVE first_selector_with_text(_)
first_selector_with_text(found) ==
    IF found = <<>> THEN <<>>
    ELSE LET texts == SelectSeq([k \in 1..Len(found[1]) |->
                                     Strip(found[1][k], Whitespace)],
                                LAMBDA text : Len(text) > 50)
         IN  IF texts # <<>> THEN texts ELSE first_selector_with_text(Tail(found))

all_text(pg) ==
    IF pg.main_container # <<>> /\ Len(pg.main_container[1]) > 500
    THEN <<pg.main_container[1]>>
    ELSE first_selector_with_text(pg.found)

\* the loop over main_selectors: every element there is replaces combined_text,
\* and one with more than 200 characters ends the loop
RECURSIVE main_text(_, _)
main_text(mains, combined_text) ==
    IF mains = <<>> THEN combined_text
    ELSE IF mains[1] = <<>> THEN main_text(Tail(mains), combined_text)
    ELSE IF Len(mains[1][1]) > 200 THEN mains[1][1]
    ELSE main_text(Tail(mains), mains[1][1])

\* combined_text as the clean-up finds it
combined_text_of(pg) ==
    LET combined_text == Join(all_text(pg), <<"\n", "\n">>)
    IN  IF Len(combined_text) < 100 THEN main_text(pg.mains, combined_text)
        ELSE combined_text

enough_text_lenient(text) == Len(text) >= 100

\* `len(clean_text) > 100`, as `len(combined_text) > 100` before it
enough_text(text) == Len(text) > 100

\* what the strategy does on the page: "ok" (the file is written) or "declined"
text_extraction(pg) ==
    LET combined_text == combined_text_of(pg)
    IN  IF enough_text(combined_text) /\ enough_text(clean_text(combined_text))
        THEN "ok" ELSE "declined"

\* The item pages the strategy is called on.  A page has the text of its
\* .otter-transcript-container element, of its main element and of its #root
\* element (<<>>: no such element, else <<the inner text>>) and the texts of its
\* [class*="speech"] elements; it has no [role="main"], .monologue, .paragraph
\* or .app-content element.
MaxSpeech == 2
Letters(n) == Rep("a", n)
LinesOf(n, length) == Join([k \in 1..n |-> Letters(length)], <<"\n">>)
ContainerTexts == {<<>>, <<Letters(40)>>, <<Letters(99)>>, <<Letters(100)>>, <<Letters(101)>>}
MainTexts ==
    { <<>>, <<Letters(99)>>, <<Letters(501)>>,
      <<Letters(96) \o <<"\n", "H", "e", "l", "p", " ", "m", "e">> >>,
      <<Letters(50) \o <<"\n", " ">> \o Letters(50) \o <<" ">> >>,
      <<Letters(50) \o <<"\n", " ">> \o Letters(49) \o <<" ">> >> }
RootTexts == {<<>>, <<Letters(201)>>, <<LinesOf(17, 5)>>, <<LinesOf(15, 6)>>}
SpeechTexts == {Letters(60), <<" ">> \o Letters(50) \o <<" ">>}
ItemPages ==
    [ container : ContainerTexts, main : MainTexts, root : RootTexts,
      speech : UNION {[1..n -> SpeechTexts] : n \in 0..MaxSpeech} ]

\* what the strategy's queries find on a page: the main element comes before the
\* container it encloses; the container also matches [class*="transcript"]
Queries(pg) ==
    [ main_container |-> IF pg.main # <<>> THEN pg.main ELSE pg.container,
      found |-> <<pg.container, pg.container, pg.speech, <<>>, <<>> >>,
      mains |-> <<pg.main, <<>>, pg.root, <<>> >> ]

TextInit ==
    /\ input \in ItemPages
    /\ state = register_meeting(EmptyState, "m1", TitleOf("m1"), UrlOf("m1"))
    /\ file = <<state>>
    /\ last = Call("register_meeting", "m1")
    /\ disk = NoFault
    /\ listing = <<>> /\ page = <<>> /\ num = 0
    /\ reset = FALSE /\ login = None /\ prior = file
    /\ session_file = <<>> /\ progress_file = <<>> /\ shots = {} /\ exit_status = None /\ interrupt = "none"
    /\ pc = "text_extraction" /\ link = 0 /\ meetings = <<>> /\ pending = <<>>
    /\ item = 0 /\ retry = 0 /\ strategy = 0 /\ waits = <<>>
    /\ success_count = 0 /\ final_stats = None /\ result = None
    /\ output = <<>>
    /\ previous_count = 0 /\ no_change_count = 0 /\ scroll_count = 0
    /\ NoPool

\* strategy_text_extraction as a whole: the text, the file, the ledger calls
TextExtraction ==
    /\ pc = "text_extraction"
    /\ LET outcome == text_extraction(Queries(input))
       IN  /\ state' = strategy_call(state, "m1", "text_extraction", outcome)
           /\ output' = IF outcome = "ok" THEN PathOf("text_extraction") ELSE None
           /\ last' = Call(IF outcome = "ok" THEN "mark_success" ELSE "record_attempt", "m1")
    /\ file' = <<state'>>
    /\ pc' = "returned"
    /\ UNCHANGED <<disk, envVars, sysVars, link, meetings, pending, item, retry,
                   strategy, waits, success_count, final_stats, result, poolVars,
                   input, previous_count, no_change_count, scroll_count>>

TextNext == TextExtraction

SpecText == TextInit /\ [][TextNext]_vars

\* ------------------------------------------------------- extract_transcript_text
\* the f-string both methods put in front of the text; the method name is
\* parallel_text_extraction or parallel_body_extraction
header(pg, method) ==
    LET MeetingLabel == <<"M", "e", "e", "t", "i", "n", "g", ":", " ">>
        URLLabel == <<"U", "R", "L", ":", " ">>
        DownloadedLabel == <<"D", "o", "w", "n", "l", "o", "a", "d", "e", "d", ":", " ">>
        MethodLabel == <<"M", "e", "t", "h", "o", "d", ":", " ", "p", "a", "r", "a", "l", "l", "e", "l", "_">>
        extraction == <<"_", "e", "x", "t", "r", "a", "c", "t", "i", "o", "n">>
    IN  MeetingLabel \o Split(pg.title)[1] \o <<"\n">>
        \o URLLabel \o pg.url \o <<"\n">>
        \o DownloadedLabel \o pg.now \o <<"\n">>
        \o MethodLabel \o method \o extraction \o <<"\n">>
        \o Rep("=", 60) \o <<"\n", "\n">>

\* the texts of the matched elements that are longer than 50 characters
content_parts(pg) == SelectSeq(pg.elements, LAMBDA text : text # <<>> /\ Len(text) > 50)

\* extract_transcript_text: the header and the element texts, else the header
\* and the body text when that is longer than 200 characters, else ""; an
\* exception of page.evaluate gives "" as well
extract_transcript_text(pg) ==
    IF content_parts(pg) # <<>>
    THEN header(pg, <<"t", "e", "x", "t">>) \o Join(content_parts(pg), <<"\n">>)
    ELSE IF pg.evaluate = "raises" THEN <<>>
    ELSE IF pg.body # <<>> /\ Len(pg.body) > 200
    THEN header(pg, <<"b", "o", "d", "y">>) \o pg.body
    ELSE <<>>

\* download_single_transcript: `if transcript_text and len(transcript_text) > 100`
has_transcript(transcript_text) == transcript_text # <<>> /\ Len(transcript_text) > 100

\* elements a page shows to the selectors
MaxParts == 2

ElementTexts ==
    UNION {[1..n -> {Letters(50), Letters(51), Letters(101)}] : n \in 0..MaxParts}
BodyTexts == {<<>>, Letters(100), Letters(200), Letters(201)}

\* the page of item m1 and the meeting record: a title of one or two lines, the
\* URL, and datetime.now().isoformat() with or without microseconds
WorkerPages ==
    [ elements : ElementTexts, body : BodyTexts, evaluate : {"ok", "raises"},
      title : {<<"t", "1">>, <<"t", "1", "\n", "x">>},
      url : {Rep("u", 19) \o <<"m", "1">>},
      now : {Rep("9", 19), Rep("9", 26)} ]

WorkerInit ==
    /\ input \in WorkerPages
    /\ output = <<>>
    /\ file = <<LedgerAfterRun(1, <<"pending">>)>>
    /\ state = p_load_state(file)
    /\ last = Call("load", None)
    /\ disk = NoFault
    /\ listing = <<>> /\ page = <<>> /\ num = 0
    /\ reset = FALSE /\ login = None /\ prior = file
    /\ session_file = <<>> /\ progress_file = <<>> /\ shots = {} /\ exit_status = None /\ interrupt = "none"
    /\ pc = "extract_transcript_text" /\ link = 0 /\ meetings = <<>> /\ pending = <<>>
    /\ item = 0 /\ retry = 0 /\ strategy = 0 /\ waits = <<>>
    /\ success_count = 0 /\ final_stats = None /\ result = None
    /\ previous_count = 0 /\ no_change_count = 0 /\ scroll_count = 0
    /\ NoPool

\* the worker's try block for item m1, from extract_transcript_text to the
\* mark_success or mark_failure call, which changes the state under the lock and
\* then waits in save() for the lock it owns
WorkerExtract ==
    /\ pc = "extract_transcript_text"
    /\ output' = extract_transcript_text(input)
    /\ IF has_transcript(output')
       THEN /\ state' = p_mark_success(state, "m1", "f.txt", "s1")
            /\ download_count' = download_count + 1
            /\ last' = Call("mark_success", "m1")
       ELSE /\ state' = p_mark_failure(state, "m1", "No transcript content found")
            /\ download_count' = download_count
            /\ last' = Call("mark_failure", "m1")
    /\ lock' = {1}
    /\ pc' = "save"
    /\ UNCHANGED <<file, disk, envVars, sysVars, link, meetings, pending, item, retry,
                   strategy, waits, success_count, final_stats, result,
                   threads, queue, futures, progress,
                   input, previous_count, no_change_count, scroll_count>>

SpecWorker == WorkerInit /\ [][WorkerExtract]_vars

\* ======================================================= claims
StatusOf(st, id) ==
    IF HasMeeting(st.meetings, id) THEN Meeting(st.meetings, id).status ELSE None

PendingIds(st) == MeetingIds(get_pending_meetings(st))

\* C1: mark_failure never downgrades a Success entry: an entry whose status is
\* success before a mark_failure call has status success after it.
C1_MarkFailureKeepsSuccess ==
    [][last'.op = "mark_failure" =>
          \A id \in Ids : StatusOf(state, id) = "success" => StatusOf(state', id) = "success"]_vars

\* C2: in every ledger state the successful ids and the failed ids are disjoint.
C2_SuccessfulFailedDisjoint ==
    \A id \in Ids :
        ~(InList(id, state.successful_downloads) /\ InList(id, state.failed_downloads))

\* C3: mark_success on a registered id makes is_downloaded true and takes the id out
\* of pending(), and once that is so of a registered id it stays so in every later
\* ledger state.
DoneFor(st, id) ==
    HasMeeting(st.meetings, id) /\ is_downloaded(st, id) /\ id \notin PendingIds(st)

C3_SuccessIsPermanent ==
    [][\A id \in Ids :
          /\ (last'.op = "mark_success" /\ last'.id = id /\ HasMeeting(state.meetings, id))
                => DoneFor(state', id)
          /\ DoneFor(state, id) => DoneFor(state', id)]_vars

\* C7: register_meeting on an id that has an entry leaves exactly one entry for it,
\* the entry unchanged (status, title, url, download metadata); on a new id it adds
\* exactly one entry, with status pending.
C7_RegisterIdempotent ==
    [][last'.op = "register_meeting" =>
          LET id == last'.id
          IN  /\ EntriesFor(state'.meetings, id) = 1
              /\ IF HasMeeting(state.meetings, id)
                 THEN /\ Meeting(state'.meetings, id) = Meeting(state.meetings, id)
                      /\ Len(state'.meetings) = Len(state.meetings)
                 ELSE /\ Meeting(state'.meetings, id).status = "pending"
                      /\ Len(state'.meetings) = Len(state.meetings) + 1]_vars

\* C7 witness: register_meeting was just called on an id whose entry is a Success
\* entry with its download metadata filled.
C7_Witness ==
    /\ last.op = "register_meeting"
    /\ StatusOf(state, last.id) = "success"
    /\ Meeting(state.meetings, last.id).method_used # None

\* C8: after mark_success(id), in either ledger, the entry (if any) has status
\* success and its download metadata, id is in the successful list exactly once
\* and id is not in the failed list.
C8_MarkSuccessPost ==
    last.op = "mark_success" =>
        /\ Count(last.id, state.successful_downloads) = 1
        /\ ~InList(last.id, state.failed_downloads)
        /\ HasMeeting(state.meetings, last.id) =>
              LET m == Meeting(state.meetings, last.id)
              IN  /\ m.status = "success"
                  /\ m.download_path # None /\ m.file_size # None /\ m.method_used # None

\* C9: the status-based pending() of the sequential ledger and the
\* successful-list-based pending() of the parallel ledger return the same ids.
C9_PendingAgree ==
    PendingIds(state) = MeetingIds(p_get_pending_meetings(state))

\* C10 (as stated): after a run from a fresh ledger that processed all n discovered
\* items, k of them extractable, the final statistics are successful = k,
\* failed = n - k, pending = 0.
Extractable(kind) ==
    \E r \in 0..(max_retries - 1), k \in 1..Len(strategies) :
        Navigation(kind, r) = "ok" /\ Outcome(kind, strategies[k]) = "ok"

Reported == pc = "done" /\ pending # <<>>

NumExtractable == Cardinality({id \in DOMAIN page : Extractable(page[id])})

C10_ScenarioA ==
    (Reported /\ num = 0) =>
        /\ final_stats.successful = NumExtractable
        /\ final_stats.failed = Len(listing) - NumExtractable
        /\ final_stats.pending = 0

\* C10 (amended): ... the final statistics are successful = k, failed = n - k and
\* pending = n - k, because the pending count includes the Failed entries.
C10_FinalStats ==
    (Reported /\ num = 0) =>
        /\ final_stats.successful = NumExtractable
        /\ final_stats.failed = Len(listing) - NumExtractable
        /\ final_stats.pending = Len(listing) - NumExtractable

\* C10 witness: the spec's instance, n = 3 and k = 2, has been reported.
C10_Witness ==
    Reported /\ num = 0 /\ Len(listing) = 3 /\ NumExtractable = 2

\* ------------------------------------------------------- the pool's claims
WorkerStep(t) ==
    TakeTask(t) \/ WithLock(t) \/ Extract(t) \/ ParMarkSuccess(t) \/ ParMarkFailure(t)

Submitted == DOMAIN futures # {}

Returned == threads[0].pc = "returned"

AtRest == ~ENABLED ParNext

InitiallyDownloaded == Len(p_load_state(file).successful_downloads)

\* C4: a parallel run whose N pending items all yield content ends (the main thread
\* returns from the pool) with N mark_success calls made, none lost, and N more ids
\* in the successful list: it never comes to rest before, and when it has returned
\* the counts are N.
C4_AllSucceed ==
    (Submitted /\ \A id \in DOMAIN futures : page[id] = "content") =>
        IF Returned
        THEN /\ download_count = Len(pending)
             /\ Len(state.successful_downloads) = InitiallyDownloaded + Len(pending)
             /\ \A id \in DOMAIN futures : is_downloaded(state, id)
        ELSE ~AtRest

\* C5: the lock has no hazard: a thread that waits for the lock is never the thread
\* that owns it, and the owner of the lock always has a step to take (so the lock is
\* released and the waiting workers go on).
AtLockSite(t) ==
    threads[t].pc \in {"get_pending", "no_pending", "is_downloaded", "get_progress",
                       "save", "mark_success", "mark_failure"}

C5_NoLockHazard ==
    \A t \in DOMAIN threads :
        /\ AtLockSite(t) => lock # {t}
        /\ (t \in Workers /\ lock = {t}) => ENABLED WorkerStep(t)

\* C6: ledger mutations exclude each other and none is lost: never two threads
\* inside a mutation or its file write, and when the pool has come to rest every
\* item of two or more submitted ones is marked (successful or failed, as its page
\* gave content or not) in memory and in the state file.
MarkedAsPage(st, id) ==
    IF page[id] = "content"
    THEN InList(id, st.successful_downloads)
    ELSE InList(id, st.failed_downloads)

C6_MarksNotLost ==
    /\ Cardinality({t \in DOMAIN threads : threads[t].pc = "save"}) <= 1
    /\ (Cardinality(DOMAIN futures) >= 2 /\ AtRest) =>
          /\ file # <<>>
          /\ \A id \in DOMAIN futures :
                MarkedAsPage(state, id) /\ MarkedAsPage(file[1], id)

\* ------------------------------------------------------- later runs
\* the ledger the process loaded from the state file it found
Loaded == load_state(prior)

FailedBefore(id) == StatusOf(Loaded, id) = "failed"

\* the pending filter has run
Filtered == pc \in {"download_meeting", "goto", "strategy", "attempt_failed", "next"}

AtItem(id) == item \in 1..Len(pending) /\ pending[item].id = id

C12_OneAttemptRecord ==
    /\ [][pc = "strategy" =>
            Len(AttemptsOf(state', pending[item].id))
                = Len(AttemptsOf(state, pending[item].id)) + 1]_vars
    /\ [](\A t \in DOMAIN threads :
            threads[t].pc = "save" =>
                Len(AttemptsOf(state, threads[t].id))
                    = Len(AttemptsOf(p_load_state(prior), threads[t].id)) + 1)

\* C13: write-through: once a mutation of the ledger has been made, the state file
\* holds exactly the ledger in memory, unless the thread that made the mutation is
\* at its save and can go on to write the file.
C13_WriteThrough ==
    last.op # "load" =>
        \/ file = <<state>>
        \/ \E t \in DOMAIN threads : threads[t].pc = "save" /\ ENABLED WithLock(t)

\* ------------------------------------------------------- crashes and failed writes
\* the ledger a process started after the crash loads
Reloaded == load_state(file)

SameRecords(a, b, id) ==
    /\ HasMeeting(a.meetings, id) = HasMeeting(b.meetings, id)
    /\ HasMeeting(a.meetings, id) => Meeting(a.meetings, id) = Meeting(b.meetings, id)
    /\ AttemptsOf(a, id) = AttemptsOf(b, id)
    /\ InList(id, a.successful_downloads) = InList(id, b.successful_downloads)
    /\ InList(id, a.failed_downloads) = InList(id, b.failed_downloads)

\* C14: after a crash, the ledger loaded from the state file has, for every item
\* download_meeting was through with before, the entry, the attempt records and
\* the marks the crashed process had.
C14_CrashLosesOnlyInFlight ==
    pc = "crashed" =>
        \A k \in 1..(item - 1) : SameRecords(Reloaded, state, pending[k].id)

Struck == disk.left = 0 /\ disk.kind \in {"open", "write"}

SaveErrorRecorded ==
    \E id \in DOMAIN state.download_attempts :
        \E k \in 1..Len(state.download_attempts[id]) :
            state.download_attempts[id][k].error = "OSError"

\* C16: once a write of the state file has raised inside a mutation, the error has
\* surfaced: it is on its way to main (or has arrived there through run_download's
\* except clause), or an attempt record holds it.
C16_SaveFailureSurfaces ==
    Struck => \/ pc \in {"fatal", "raised"}
              \/ "debug_fatal_error" \in shots
              \/ SaveErrorRecorded

\* a worker has run into an error on this item and has gone on to mark it failed
ErrorHandled(id) ==
    \E t \in Workers : threads[t].id = id /\ threads[t].ret = "mark_failure"

\* C17: an error on one item does not stop the run: a sequential run that has
\* reported has marked every pending item, and when a pool in which an item ran
\* into an error has come to rest, no future of another item is left running.
C17_ItemErrorIsolated ==
    /\ Reported =>
          \A k \in 1..Len(pending) :
              \/ InList(pending[k].id, state.successful_downloads)
              \/ InList(pending[k].id, state.failed_downloads)
    /\ (threads # <<>> /\ AtRest) =>
          \A id \in DOMAIN futures :
              ErrorHandled(id) =>
                  \A other \in DOMAIN futures \ {id} : futures[other] # "running"

\* C18: a process that ends while the ledger holds a failed item exits with a
\* status other than 0.
C18_ExitStatus ==
    (pc = "exited" /\ state.failed_downloads # <<>>) => exit_status # "0"

\* the ledger run_download works with at login: the one loaded, or after a reset
\* the one loaded once the state file is deleted
AtRunStart == load_state(IF reset THEN unlink(prior) ELSE prior)

\* login is required (no valid session) and the form does not sign the user in
LoginUnconfirmed ==
    pc \notin {"start", "login"} /\ login # "accepted" /\ session_file # <<"valid">>

\* C19: when login is required and cannot be confirmed, run_download returns False
\* with a debug screenshot taken, nothing was discovered, registered or attempted,
\* the ledger's entries, attempts and lists are those of the run's start, and the
\* process exits with status 1.
C19_LoginAbort ==
    LoginUnconfirmed =>
        /\ pc \in {"done", "exited"} /\ result = "False"
        /\ shots \cap {"debug_login_failed", "debug_still_on_login"} # {}
        /\ meetings = <<>> /\ pending = <<>> /\ link = 1
        /\ state.meetings = AtRunStart.meetings
        /\ state.download_attempts = AtRunStart.download_attempts
        /\ state.successful_downloads = AtRunStart.successful_downloads
        /\ state.failed_downloads = AtRunStart.failed_downloads
        /\ pc = "exited" => exit_status = "1"

\* C19 witness: the form led to another page, the conversations page led back to
\* the sign-in page, and the run on a ledger with entries has returned.
C19_Witness ==
    /\ LoginUnconfirmed /\ login = "unclear" /\ ~reset
    /\ "debug_still_on_login" \in shots
    /\ Loaded.meetings # <<>>
    /\ pc = "done"

\* C20: with reset, the state file, the session file and the progress file are
\* gone before login, the ledger in memory is then empty, and what the ledger
\* holds later comes from this run alone: entries of listed items only, and no
\* more attempt records for an item whose page times out than one run makes.
C20_Reset ==
    (reset /\ pc # "start") =>
        /\ progress_file = <<>>
        /\ pc = "login" => file = <<>> /\ session_file = <<>> /\ state = EmptyState
        /\ MeetingIds(state.meetings) \subseteq {listing[k] : k \in 1..Len(listing)}
        /\ \A id \in DOMAIN page :
              page[id] = "timeout" => Len(AttemptsOf(state, id)) <= max_retries
        /\ \A k \in 1..Len(state.successful_downloads) :
              page[state.successful_downloads[k]] = "text"

\* C20 witness: a reset run that found a ledger with a failed entry, a session
\* file and a progress file has worked through its pending items.
C20_Witness ==
    /\ reset /\ pc = "exited" /\ pending # <<>>
    /\ Loaded.failed_downloads # <<>>
    /\ prior # <<>> /\ session_file # <<>>


\* C21: no ledger operation sets the status of an existing entry back to pending:
\* across every step, an entry that is failed or success and still has its entry
\* afterwards is not pending afterwards (whatever the step registers, records,
\* marks or loads).
C21_NeverBackToPending ==
    [][\A id \in Ids :
          (StatusOf(state, id) \in {"failed", "success"}
              /\ HasMeeting(state'.meetings, id))
          => StatusOf(state', id) \in {"failed", "success"}]_vars

\* C21 witness: register_meeting was just called on an id whose entry is failed
\* and has a recorded attempt.
C21_Witness ==
    /\ last.op = "register_meeting"
    /\ StatusOf(state, last.id) = "failed"
    /\ AttemptsOf(state, last.id) # <<>>

IsPrefix(a, b) == Len(a) <= Len(b) /\ SubSeq(b, 1, Len(a)) = a

\* the step about to be taken is one record_attempt call and nothing else on the
\* ledger: a failed navigation, or a strategy that does not succeed
RecordsOnly ==
    \/ pc = "goto" /\ Navigation(page[pending[item].id], retry) # "ok"
    \/ pc = "strategy" /\ Outcome(page[pending[item].id], strategies[strategy]) # "ok"

\* C22: record_attempt appends exactly one record at the end of the id's attempt
\* list and leaves the entries (their status), successful_downloads,
\* failed_downloads and every other id's list as they were; and no ledger
\* operation changes or removes a record there is: every id's attempt list before
\* a step is a prefix of its list after it (the --reset deletion of the whole
\* ledger file set apart).
C22_RecordAttemptFrame ==
    [][/\ ~(pc = "start" /\ reset) =>
            \A id \in DOMAIN state.download_attempts :
                IsPrefix(AttemptsOf(state, id), AttemptsOf(state', id))
       /\ RecordsOnly =>
            LET id == pending[item].id
            IN  /\ AttemptsOf(state', id)
                      = Append(AttemptsOf(state, id), AttemptsOf(state', id)[Len(AttemptsOf(state', id))])
                /\ Len(AttemptsOf(state', id)) = Len(AttemptsOf(state, id)) + 1
                /\ \A other \in DOMAIN state'.download_attempts \ {id} :
                      AttemptsOf(state', other) = AttemptsOf(state, other)
                /\ state'.meetings = state.meetings
                /\ state'.successful_downloads = state.successful_downloads
                /\ state'.failed_downloads = state.failed_downloads]_vars

\* C22 witness: a record_attempt call alone has just added the fifth or a later
\* record to the list of an entry that is failed.
C22_Witness ==
    /\ last.op = "record_attempt"
    /\ pc \in {"attempt_failed", "strategy"}
    /\ Len(AttemptsOf(state, last.id)) >= 5
    /\ StatusOf(state, last.id) = "failed"

\* the iteration after which the feed's count no longer grows, and that count
StableAfter(feed) == IF feed = {} THEN 0 ELSE CHOOSE t \in feed : \A u \in feed : u <= t
StableCount(feed) == Cardinality(feed)

\* the feed never pauses for NoChangeLimit iterations before it has stopped growing
Steady(feed) ==
    \A k \in 0..StableAfter(feed) :
        k + NoChangeLimit <= StableAfter(feed)
            => \E j \in (k + 1)..(k + NoChangeLimit) :
                   CountAfter(feed, j) # (IF k = 0 THEN 0 ELSE CountAfter(feed, k))

\* C23 as stated: whatever the feed, the loop ends within K + 15 iterations of a
\* feed that stops growing after K, and returns the stabilized count.
C23_AsStated ==
    /\ scroll_count <= StableAfter(input.feed) + NoChangeLimit
    /\ pc = "scrolled" => output = <<StableCount(input.feed)>>

\* C23: the loop ends within max_scrolls iterations and returns the count of its
\* last iteration, never more than the stabilized count; when the feed stops
\* growing after K iterations without an earlier pause of 15 iterations and
\* K + 16 <= max_scrolls, the loop ends after K + 15 iterations (K + 16 when K = 0
\* and the listing is not empty) and returns exactly the stabilized count.
C23_ScrollStabilizes ==
    LET feed == input.feed
        K == StableAfter(feed)
    IN  /\ scroll_count <= actual_max_scrolls(input.quick)
        /\ scroll_count <= K + NoChangeLimit + 1
        /\ pc = "scrolled" =>
              /\ output = <<CountAfter(feed, scroll_count)>>
              /\ output[1] <= StableCount(feed)
              /\ (Steady(feed) /\ K + NoChangeLimit + 1 <= actual_max_scrolls(input.quick))
                   => /\ output = <<StableCount(feed)>>
                      /\ scroll_count = IF K = 0 /\ feed # {}
                                          THEN K + NoChangeLimit + 1
                                          ELSE K + NoChangeLimit

\* C23 witness: the loop has returned the stabilized count of a feed that grew
\* three times, the last time at the third iteration, 15 iterations later.
C23_Witness ==
    /\ pc = "scrolled"
    /\ input.feed = {1, 2, 3}
    /\ scroll_count = 3 + NoChangeLimit
    /\ output = <<3>>

\* the characters no file name may hold
ReservedChars == {"<", ">", ":", "\"", "/", "\\", "|", "?", "*"}

\* the maximum length of the sanitizer that was called
MaxOf(which) == IF which = "sanitize_filename" THEN MaxNameLen ELSE max_length

\* C25: whatever the name (the empty one included), each sanitizer returns a
\* string that holds no reserved character and no run of whitespace and is no
\* longer than its maximum length.
C25_SanitizedIsSafe ==
    pc \in {"sanitize_filename", "p_sanitize_filename"} =>
        \A k \in 1..Len(output) :
            LET s == output[k]
            IN  /\ \A i \in 1..Len(s) : s[i] \notin ReservedChars
                /\ \A i \in 1..(Len(s) - 1) :
                       ~(s[i] \in Whitespace /\ s[i + 1] \in Whitespace)
                /\ Len(s) <= MaxOf(pc)

\* C26: each sanitizer is idempotent: applied to its own result it returns that
\* result.
C26_SanitizeIdempotent ==
    (pc \in {"sanitize_filename", "p_sanitize_filename"} /\ Len(output) = 2)
        => output[2] = output[1]

\* C26 witness: the sequential sanitizer was applied twice to a name of 82
\* characters whose characters 80 and 81 are blanks: the truncation cut behind
\* the underscore that replaced them, and the strip removed it.
C26_Witness ==
    /\ pc = "sanitize_filename" /\ Len(output) = 2
    /\ Len(input) = MaxNameLen + 2
    /\ input[MaxNameLen] = " " /\ input[MaxNameLen + 1] = " "
    /\ Len(output[1]) = MaxNameLen - 1

\* the id extraction reads from the k-th anchor of the listing: <<>> when the
\* anchor yields none
IdAt(k) == IF input[k].broken THEN <<>> ELSE meeting_id_of(input[k].href)

\* the anchors that carry an id of at least 10 characters
Carriers == {k \in 1..Len(input) : Len(IdAt(k)) >= 10}

\* the first anchor that carries this id
FirstAt(id) == CHOOSE k \in Carriers : IdAt(k) = id /\ \A j \in Carriers : IdAt(j) = id => k <= j

\* C24: extract_meeting_info returns exactly one item for each distinct id of at
\* least 10 characters among the anchors and none for another id, in the order
\* of the ids' first anchors; an item's title is at most 100 characters long and is
\* the stripped text of the id's first anchor cut to 100 characters, or
\* "Meeting_" and the first 10 characters of the id when that text is shorter
\* than 2 or cannot be read; and the ledger has an entry for every item returned.
C24_ExtractionResult ==
    pc = "extracted" =>
        /\ \A k \in Carriers : \E i \in 1..Len(meetings) : meetings[i].id = IdAt(k)
        /\ \A i \in 1..Len(meetings) :
              LET m == meetings[i]
              IN  /\ \E k \in Carriers : IdAt(k) = m.id
                  /\ Len(m.id) >= 10
                  /\ \A j \in 1..Len(meetings) : meetings[j].id = m.id => j = i
                  /\ \A j \in 1..Len(meetings) :
                        i < j => FirstAt(m.id) < FirstAt(meetings[j].id)
                  /\ Len(m.title) <= 100
                  /\ LET a == input[FirstAt(m.id)]
                         text == Strip(a.text, Whitespace)
                     IN  IF a.detached \/ Len(text) < 2
                         THEN m.title = <<"M", "e", "e", "t", "i", "n", "g", "_">>
                                            \o SubSeq(m.id, 1, 10)
                         ELSE m.title = SubSeq(text, 1, IF Len(text) < 100 THEN Len(text) ELSE 100)
                  /\ HasMeeting(state.meetings, m.id)
                  /\ EntriesFor(state.meetings, m.id) = 1

\* C24 witness: three anchors gave two items: the second anchor repeats the
\* first one's id, the first anchor has no text (synthetic title), and the other
\* item's title was cut from 101 to 100 characters.
C24_Witness ==
    /\ pc = "extracted"
    /\ Len(input) = 3 /\ Len(meetings) = 2
    /\ IdAt(1) = IdAt(2) /\ input[1].text = <<>>
    /\ Len(meetings[1].title) = 18
    /\ Len(input[3].text) = 101 /\ ~input[3].detached
    /\ Len(meetings[2].title) = 100
    /\ HasMeeting(state.meetings, meetings[2].id)

\* the text strategy_text_extraction cleans up on the page, and what is left of it
TextRead == combined_text_of(Queries(input))
TextLeft == clean_text(TextRead)
Succeeded == output = PathOf("text_extraction") /\ StatusOf(state, "m1") = "success"
Failed ==
    /\ output = None /\ StatusOf(state, "m1") = "pending"
    /\ AttemptsOf(state, "m1") =
          <<[method |-> "text_extraction", success |-> FALSE,
             error |-> "Insufficient text content found"]>>

\* C27 as stated: on a page whose content container text has exactly 99
\* characters the strategy fails; it succeeds when 101 characters are left after
\* the clean-up, and in general exactly when more than 100 are left.
C27_AsStated ==
    pc = "returned" =>
        /\ (input.container # <<>> /\ Len(input.container[1]) = 99) => Failed
        /\ Len(TextLeft) = 101 => Succeeded
        /\ Succeeded <=> Len(TextLeft) > 100

\* C27: on a page where the text the strategy reads (the container's, or that of
\* the main-content fallback when the container's is shorter than 100) has
\* exactly 99 characters the strategy fails; it succeeds when 101 characters are
\* left after the clean-up, fails when 100 are left, and in general succeeds
\* exactly when more than 100 are left, and fails otherwise.
C27_TextThreshold ==
    pc = "returned" =>
        /\ Len(TextRead) = 99 => Failed
        /\ Len(TextLeft) = 101 => Succeeded
        /\ Len(TextLeft) = 100 => Failed
        /\ Succeeded <=> Len(TextLeft) > 100
        /\ Failed <=> ~Succeeded

\* C27 witness: the strategy has failed on a page whose clean-up left exactly 100
\* characters of the 102 read.
C27_Witness ==
    /\ pc = "returned"
    /\ Len(TextRead) = 102 /\ Len(TextLeft) = 100
    /\ Failed

\* the meeting download_meeting is working on
Current == pending[item].id

\* download_meeting calls mark_failure in the step about to be taken
GivesUp == pc = "attempt_failed" /\ pc' # "goto"

\* the ledger shows a new failure of this id
NewlyFailed(id) ==
    \/ StatusOf(state', id) = "failed" /\ StatusOf(state, id) # "failed"
    \/ InList(id, state'.failed_downloads) /\ ~InList(id, state.failed_downloads)

\* C28: download_meeting makes at most 3 attempts and calls mark_failure exactly
\* when all 3 have failed: the call is made after the third failed attempt and
\* ends download_meeting; the ledger shows no failure before that or after a
\* strategy has succeeded, and no success record precedes it.
C28_MarkFailureAfterAllAttempts ==
    /\ [](retry + 1 <= 3)
    /\ [][/\ GivesUp =>
               /\ retry + 1 = 3
               /\ last'.op = "mark_failure" /\ last'.id = Current
               /\ StatusOf(state', Current) = "failed"
               /\ pc' = "next"
               /\ \A k \in 1..Len(AttemptsOf(state, Current)) :
                     ~AttemptsOf(state, Current)[k].success
               /\ Len(AttemptsOf(state, Current)) >= 3
          /\ (pc = "attempt_failed" /\ retry + 1 = 3) => GivesUp
          /\ \A id \in MeetingIds(state.meetings) :
                NewlyFailed(id) => (GivesUp /\ id = Current)
          /\ (pc = "strategy" /\ pc' = "next") =>
                /\ StatusOf(state', Current) = "success"
                /\ ~InList(Current, state'.failed_downloads)]_vars

\* C28 witness: mark_failure was just called on a meeting whose three attempts
\* ran all three strategies (nine failure records, two backoffs).
C28_Witness ==
    /\ last.op = "mark_failure" /\ pc = "next"
    /\ retry = 2
    /\ Len(AttemptsOf(state, last.id)) = 9
    /\ StatusOf(state, last.id) = "failed"

\* the method that may follow a record of this method without success
MayFollow(method) ==
    CASE method = "text_extraction" -> {"direct_api"}
      [] method = "direct_api" -> {"screenshot"}
      [] OTHER -> {"text_extraction", "navigation"}

C30_Backoff ==
    /\ [](/\ Len(waits) = retry
          /\ Len(waits) <= 2
          /\ \A a \in 1..Len(waits) : waits[a] = IF a = 1 THEN 2 ELSE 4)
    /\ [][/\ (pc = "attempt_failed" /\ retry + 1 < 3)
               => waits' = Append(waits, (2 ^ retry) * 2)
          /\ (pc = "attempt_failed" /\ retry + 1 = 3) => waits' = waits
          /\ pc = "strategy" => waits' = waits
          /\ pc = "goto" => waits' = waits]_vars

\* C30 witness: a meeting was given up after waits of 2 s and 4 s.
C30_Witness ==
    /\ last.op = "mark_failure" /\ pc = "next"
    /\ waits = <<2, 4>>

\* ------------------------------------------------------- one item at a time
\* the worker threads that have just entered download_single_transcript for an
\* id of the successful list
SkippingWorkers ==
    {t \in Workers : /\ threads[t].pc = "is_downloaded"
                     /\ InList(threads[t].id, state.successful_downloads)}

\* C31: a call of download_meeting for an id that is already in the successful
\* list returns True at once: no navigation, no strategy, no wait, no attempt
\* recorded, and the ledger in memory and on disk exactly as it was.  The same
\* holds for a worker task of the pool: its future is True, the thread is free
\* again, and the ledger is untouched.
C31_DownloadedIsSkipped ==
    [][/\ (pc = "download_meeting" /\ InList(pending[item].id, state.successful_downloads))
            => /\ pc' = "next" /\ success_count' = success_count + 1
               /\ state' = state /\ file' = file /\ last' = last
               /\ retry' = 0 /\ strategy' = 0 /\ waits' = <<>>
       /\ \A t \in SkippingWorkers :
             threads'[t] # threads[t]
                => /\ futures'[threads[t].id] = "True"
                   /\ threads'[t].pc = "idle"
                   /\ state' = state /\ file' = file /\ last' = last]_vars

\* C31 witness: download_meeting was called for a downloaded entry of a ledger
\* that also holds a failed one, and returned True with nothing done.
C31_Witness ==
    /\ pc = "next" /\ success_count = 1 /\ retry = 0 /\ strategy = 0
    /\ last.op = "load" /\ file = prior /\ state = file[1]
    /\ InList(pending[item].id, state.successful_downloads)
    /\ state.failed_downloads # <<>>

\* the same for a worker task: the future of a downloaded id is True and no
\* ledger call was made
C31_WorkerSkipped ==
    /\ pc = "idle" /\ last.op = "load" /\ file = prior /\ state = file[1]
    /\ \E id \in DOMAIN futures :
          futures[id] = "True" /\ InList(id, state.successful_downloads)

\* download_meeting has returned v ("True" or "False") for its item
CallReturned(v) ==
    /\ pc = "next" /\ item = 1 /\ Len(pending) = 1
    /\ success_count = IF v = "True" THEN 1 ELSE 0

\* C38: the result of download_meeting agrees with the ledger.  When it has
\* returned True the item is in the successful list with status success; when it
\* has returned False the item has status failed, is in the failed list and is
\* not in the successful list.
C38_ResultAgreesWithLedger ==
    /\ CallReturned("True") =>
          /\ InList(pending[item].id, state.successful_downloads)
          /\ StatusOf(state, pending[item].id) = "success"
    /\ CallReturned("False") =>
          /\ StatusOf(state, pending[item].id) = "failed"
          /\ InList(pending[item].id, state.failed_downloads)
          /\ ~InList(pending[item].id, state.successful_downloads)

\* page.goto of the attempt about to be made fails: with a timeout or an error
NavigationFails(how) ==
    /\ pc = "goto"
    /\ \/ how = "timeout" /\ page[Current] = "timeout"
       \/ how = "error" /\ page[Current] = "flaky" /\ retry = 0

NavigationRecord(how) ==
    [method |-> "navigation", success |-> FALSE,
     error |-> IF how = "timeout" THEN "Page load timeout" ELSE "exception"]

\* C33: a navigation timeout or error in a sequential attempt is recoverable.
\* The step records one failed "navigation" attempt for the item and changes
\* nothing else of the ledger, no strategy runs in that attempt, and the attempt
\* counts: after the first or second one the backoff wait and the next page.goto
\* follow, after the third one the item is given up; the run is never aborted.
C33_NavigationErrorRecoverable ==
    /\ [](pc \notin {"fatal", "crashed", "raised"} /\ retry < 3)
    /\ [][/\ \A how \in {"timeout", "error"} :
               NavigationFails(how) =>
                  /\ state' = [state EXCEPT !.download_attempts =
                                   SetField(@, Current,
                                            Append(AttemptsOf(state, Current),
                                                   NavigationRecord(how)))]
                  /\ file' = <<state'>>
                  /\ pc' = "attempt_failed" /\ retry' = retry
                  /\ strategy' = strategy /\ success_count' = success_count
          /\ (pc = "attempt_failed" /\ retry < 2) =>
                  /\ pc' = "goto" /\ retry' = retry + 1
                  /\ Len(waits') = Len(waits) + 1
                  /\ state' = state
          /\ (pc = "attempt_failed" /\ retry = 2) =>
                  /\ pc' = "next" /\ last'.op = "mark_failure"]_vars

\* C33 witness: the first page.goto for a meeting raised, the failure was
\* recorded, and after a wait of 2 s the second attempt downloaded the text.
C33_Witness ==
    /\ pc = "next" /\ retry = 1 /\ waits = <<2>>
    /\ page[Current] = "flaky"
    /\ AttemptsOf(state, Current) =
          <<NavigationRecord("error"),
            [method |-> "text_extraction", success |-> TRUE, error |-> None]>>
    /\ StatusOf(state, Current) = "success"

\* C34: the work list of a sequential run is the ledger's pending() set.  When
\* discovery has ended and the pending filter has run, the ids the run is going
\* to attempt are exactly the ids of the entries that are pending or failed,
\* whatever the numeric item cap.
C34_WorkListIsPending ==
    [][(pc = "discover" /\ pc' \in {"download_meeting", "done"})
          => MeetingIds(pending') = PendingIds(state')]_vars

\* ------------------------------------------------------- the worker's threshold
\* the length of the text taken from the page: the transcript text without the
\* header in front of it
ContentLength ==
    IF output = <<>> THEN 0
    ELSE Len(output) - Len(header(input, <<"t", "e", "x", "t">>))

\* C39: a worker marks its item successful only when the text extracted from
\* the page, the generated header not counted, is longer than 100 characters,
\* and an item whose page gives 100 characters or fewer is marked failed.
C39_WorkerThreshold ==
    pc = "save" =>
        /\ StatusOf(state, "m1") = "success" => ContentLength > 100
        /\ ContentLength <= 100 =>
              /\ StatusOf(state, "m1") = "failed"
              /\ InList("m1", state.failed_downloads)

\* ------------------------------------------------------- one worker task
\* C37: within one worker task mark_failure is never called after mark_success,
\* and a task that has marked its item successful returns True and leaves the
\* status success: when the pool has come to rest, every id that this run put
\* into the successful list has a future with result True and status success.
C37_SuccessTaskReturnsTrue ==
    /\ [](AtRest =>
            \A id \in DOMAIN futures :
                InList(id, state.successful_downloads) =>
                    futures[id] = "True" /\ StatusOf(state, id) = "success")
    /\ [][\A t \in Workers :
             (threads[t].pc = "mark_failure" /\ threads'[t].pc = "save")
                => ~InList(threads[t].id, state.successful_downloads)]_vars

\* how many times id is in the work queue or in the hands of a worker
TimesHeld(id) ==
    Cardinality({k \in 1..Len(queue) : queue[k].id = id})
    + Cardinality({t \in Workers : threads[t].id = id})

\* C32: in a parallel run every pending item is submitted exactly once and
\* attempted at most once: an id with a future is in the queue or with one
\* worker while its future is running and nowhere afterwards.  An item whose
\* page gives no content or raises has, when the pool has come to rest, the
\* result False, status failed and membership in the failed list, in memory and
\* in the state file, so that a later run finds it failed and pending.
C32_FailedOncePerRun ==
    /\ \A id \in DOMAIN futures :
          /\ TimesHeld(id) = IF futures[id] = "running" THEN 1 ELSE 0
          /\ id \in MeetingIds(pending)
    /\ AtRest =>
          \A id \in DOMAIN futures :
              page[id] \in {"empty", "error"} =>
                  /\ futures[id] = "False"
                  /\ StatusOf(state, id) = "failed"
                  /\ InList(id, state.failed_downloads)
                  /\ StatusOf(p_load_state(file), id) = "failed"
                  /\ InList(id, p_load_state(file).failed_downloads)

\* the first half of C32 alone
C32_SubmittedOnce ==
    \A id \in DOMAIN futures :
        TimesHeld(id) = IF futures[id] = "running" THEN 1 ELSE 0

\* ------------------------------------------------------- the interrupt
\* C36: an interrupt signal that arrives at any point of a sequential run stops
\* the run.  The step in which it arrives takes the run to the top-level handler
\* with the ledger in memory and on disk as it was, and the only step after it
\* is main's exit with status 130: no further strategy, attempt or item.
C36_InterruptStopsRun ==
    [][/\ (interrupt = "none" /\ interrupt' # "none")
            => pc' = "interrupted" /\ state' = state /\ file' = file
       /\ interrupt # "none"
            => /\ pc' = "exited" /\ exit_status' = "130"
               /\ state' = state /\ file' = file]_vars

\* ------------------------------------------------------- the scroll loop ends
\* the count the loop has seen after k iterations; before the first it holds 0
Seen(k) == IF k = 0 THEN 0 ELSE CountAfter(input.feed, k)

\* the last 15 iterations all found the count of the iteration before
Unchanged15 ==
    /\ scroll_count >= 15
    /\ \A j \in (scroll_count - 14)..scroll_count : Seen(j) = Seen(j - 1)

CapReached == scroll_count = IF input.quick THEN 2 ELSE 500

\* C35: the scroll loop terminates for every feed, also one whose count never
\* comes to rest.  It never makes more than max_scrolls iterations, it goes on
\* exactly while neither the count has been unchanged for 15 consecutive
\* iterations nor the cap is reached, and it returns.
C35_ScrollTerminates ==
    /\ [](scroll_count <= IF input.quick THEN 2 ELSE 500)
    /\ [][pc = "scroll" => (pc' = "scrolled" <=> (Unchanged15 \/ CapReached))]_vars
    /\ <>(pc = "scrolled")

\* C35 witness: a listing that grew at every iteration was left after 500
\* iterations, the count still changing.
C35_Witness ==
    /\ pc = "scrolled" /\ ~input.quick
    /\ scroll_count = 500 /\ no_change_count = 0
    /\ output = <<500>> /\ ~Unchanged15

====
